---- MODULE Spec2Model ----
(***************************************************************************)
(* Bluetooth seal HUD clock (Arduino Mega 2560): the time model            *)
(* (parseTime, tickOneSecond), the serial line reader and the cooperative  *)
(* loop() scheduler of src/Buletooth_Clock.ino.                            *)
(*                                                                         *)
(* Text is modelled as sequences of one-character strings; a C string is   *)
(* the sequence of its characters before the terminating NUL.              *)
(***************************************************************************)
EXTENDS Integers, Sequences, FiniteSets, TLC

VARIABLES
    \* ---- loop() and the globals it works on
    pc,           \* position of the single thread of control
    now,          \* the value millis() returns, an unsigned 32-bit counter
    uptime,       \* milliseconds elapsed in the run looked at (history)
    ms,           \* loop()'s local `ms`
    lastTickMs, subAnimMs, repaintAll,
    ct,           \* the shared ClockTime
    wire,         \* bytes the sender has written that have not arrived yet
    rx,           \* Serial1's receive queue
    str_in, in_i, \* line buffer (as a C string) and its fill index
    tx,           \* replies printed on Serial1 by the current loop iteration
    lastStatus,
    prevTimeStr, prevDateStr, prevFillW,   \* render shadow state
    prevDigitMask,                         \* segment mask cached per digit cell
    \* ---- the panel: what is lit on it
    segLit,       \* per digit cell, the segments that are painted in full
    barLit,       \* columns of the seconds bar painted in the fill colour
    dateShown,    \* the two lines of text in the date area
    frameLit,     \* rows in which the outline of the seconds bar is drawn
    nDateTick,    \* date-area repaints made by the 1 Hz step since the sync
    \* ---- the DHT line
    lastEnvRead, lastEnvStr,
    lastT, lastH, \* updateEnv's static lastT, lastH
    envShown,     \* the text in the environment line of the panel
    envDrawn,     \* drawEnvLine calls made by the latest Anim step
    envRead,      \* the reading the latest Anim step took, if it took one
    envUp,        \* uptime at the latest sensor read (history)
    \* ---- history of the run, read by the properties only
    nSent,        \* lines written by the sender so far
    syncP, syncT, \* clock parsed by the latest sync, millis() stored by it
    syncUp,       \* uptime at the latest sync
    nSync,        \* successful syncs so far
    nForce,       \* forceRedrawAll calls so far
    ticksIter,    \* tickOneSecond calls in the current loop iteration
    \* ---- parseTime called on its own
    p_case,       \* how the input line was built
    p_line, p_out, p_res, p_done,
    \* ---- tickOneSecond called repeatedly on its own
    t_start, t_cur, t_n,
    \* ---- the three diffing draw routines called on their own
    d_clock,      \* the ClockTime of the latest call
    d_shadow,     \* prevTimeStr, prevDigitMask, prevFillW, prevDateStr and
                  \* what is on the panel
    d_ops,        \* draw and erase operations issued by the latest call of
                  \* each routine
    d_again,      \* calls made in a row with d_clock, counted up to 2
    \* ---- weekdayIndex called on its own
    w_date, w_res, w_done,
    \* ---- autoSizeToFit run on its own, one pass of its for loop at a time
    a_W,          \* the display width it is run for
    a_size,       \* E_SP, COLON_W, SEG_LEN, SEG_VLEN, SEG_THICK
    a_g,          \* the loop counter g
    a_pc,         \* "idle", "loop" or "done"
    \* ---- the build
    hardRefresh   \* the values HARD_REFRESH_MINUTES and HARD_REFRESH_SECONDS
                  \* were compiled with; no step changes them

loopVars == <<pc, now, uptime, ms, lastTickMs, subAnimMs, repaintAll, ct,
              wire, rx, str_in, in_i, tx, lastStatus,
              prevTimeStr, prevDateStr, prevFillW,
              nSent, syncP, syncT, syncUp,
              nSync, nForce, ticksIter>>
screenVars == <<prevDigitMask, segLit, barLit, dateShown, frameLit,
                nDateTick>>
envVars == <<lastEnvRead, lastEnvStr, lastT, lastH, envShown, envDrawn,
             envRead, envUp>>
parseVars == <<p_case, p_line, p_out, p_res, p_done>>
tickVars == <<t_start, t_cur, t_n>>
drawVars == <<d_clock, d_shadow, d_ops, d_again>>
weekVars == <<w_date, w_res, w_done>>
fitVars == <<a_W, a_size, a_g, a_pc>>
buildVars == <<hardRefresh>>
vars == <<loopVars, screenVars, envVars, parseVars, tickVars, drawVars,
          weekVars, fitVars, buildVars>>

----------------------------------------------------------------------------
(* ClockTime *)

ClockTime(y, mo, d, h, mi, s, hd, st) ==
    [year |-> y, month |-> mo, day |-> d, hour |-> h, minute |-> mi,
     second |-> s, hasDate |-> hd, isSet |-> st]

\* a default-constructed ClockTime
ZeroClock == ClockTime(0, 0, 0, 0, 0, 0, FALSE, FALSE)

----------------------------------------------------------------------------
(* Parse helpers *)

DigitChars == <<"0", "1", "2", "3", "4", "5", "6", "7", "8", "9">>

isDigitN(c) == \E k \in 1..10 : DigitChars[k] = c

\* c - '0' for a digit character c
DigitValue(c) == (CHOOSE k \in 1..10 : DigitChars[k] = c) - 1

\* to2 with the weights of the two digits exchanged
to2_swapped(s, off) ==
    IF ~isDigitN(s[off + 1]) \/ ~isDigitN(s[off + 2]) THEN -1
    ELSE DigitValue(s[off + 1]) + DigitValue(s[off + 2]) * 10

\* to2(s + off): off is the C offset, s[off] is element off+1 of the sequence
to2(s, off) ==
    IF ~isDigitN(s[off + 1]) \/ ~isDigitN(s[off + 2]) THEN -1
    ELSE DigitValue(s[off + 1]) * 10 + DigitValue(s[off + 2])

to4(s, off) ==
    IF \E k \in 1..4 : ~isDigitN(s[off + k]) THEN -1
    ELSE DigitValue(s[off + 1]) * 1000 + DigitValue(s[off + 2]) * 100
         + DigitValue(s[off + 3]) * 10 + DigitValue(s[off + 4])

\* while (*s == ' ' || *s == '\t') s++;
RECURSIVE SkipBlanks(_)
SkipBlanks(s) ==
    IF s # <<>> /\ (s[1] = " " \/ s[1] = "\t") THEN SkipBlanks(Tail(s)) ELSE s

\* the condition of parseTime's first `if`
ShortShape(s) ==
    /\ Len(s) >= 8
    /\ isDigitN(s[1]) /\ isDigitN(s[2]) /\ s[3] = ":"
    /\ isDigitN(s[4]) /\ isDigitN(s[5]) /\ s[6] = ":"
    /\ isDigitN(s[7]) /\ isDigitN(s[8])

\* the condition of parseTime's `else if`
LongShape(s) == Len(s) >= 19 /\ isDigitN(s[1])

LongSeparators(s) ==
    s[5] = "-" /\ s[8] = "-" /\ s[11] = " " /\ s[14] = ":" /\ s[17] = ":"

TimeOutOfRange(t) ==
    \/ t.hour < 0 \/ t.hour > 23
    \/ t.minute < 0 \/ t.minute > 59
    \/ t.second < 0 \/ t.second > 59

DateOutOfRange(t) ==
    \/ t.year < 1970
    \/ t.month < 1 \/ t.month > 12
    \/ t.day < 1 \/ t.day > 31

\* the ClockTime `temp` of the short branch, before its range check
ShortTemp(s) ==
    [ZeroClock EXCEPT !.hour = to2(s, 0), !.minute = to2(s, 3),
                      !.second = to2(s, 6), !.hasDate = FALSE]

\* the ClockTime `temp` of the long branch, before its range checks
LongTemp(s) ==
    LET y == to4(s, 0)
    IN  [ZeroClock EXCEPT !.year = y, !.month = to2(s, 5), !.day = to2(s, 8),
                          !.hour = to2(s, 11), !.minute = to2(s, 14),
                          !.second = to2(s, 17), !.hasDate = (y > 0)]

\* what parseTime does on `return false`: the out parameter keeps its value
ParseFail(out) == [ok |-> FALSE, out |-> out]

\* temp.isSet = true; out = temp; return true;
ParseAccept(temp) == [ok |-> TRUE, out |-> [temp EXCEPT !.isSet = TRUE]]

\* parseTime(line, out): the returned bool and the value of `out` afterwards
parseTime(line, out) ==
    LET s == SkipBlanks(line)
    IN  IF ShortShape(s)
        THEN IF TimeOutOfRange(ShortTemp(s)) THEN ParseFail(out)
             ELSE ParseAccept(ShortTemp(s))
        ELSE IF LongShape(s)
        THEN IF ~LongSeparators(s) THEN ParseFail(out)
             ELSE IF DateOutOfRange(LongTemp(s)) THEN ParseFail(out)
             ELSE IF TimeOutOfRange(LongTemp(s)) THEN ParseFail(out)
             ELSE ParseAccept(LongTemp(s))
        ELSE ParseFail(out)

----------------------------------------------------------------------------
(* Calendar and the one-second advance *)

\* the Julian rule: every fourth year
isLeap_julian(y) == y % 4 = 0

\* no leap years at all
isLeap_never(y) == FALSE

isLeap(y) == (y % 4 = 0 /\ y % 100 # 0) \/ (y % 400 = 0)

MonthDays == <<31, 28, 31, 30, 31, 30, 31, 31, 30, 31, 30, 31>>

daysInMonth(y, m) ==
    IF m = 2 THEN (IF isLeap(y) THEN 29 ELSE 28) ELSE MonthDays[m]

\* the day/month/year part of tickOneSecond, run when the hour wrapped
TickDate(t) ==
    LET e == [t EXCEPT !.day = t.day + 1]
    IN  IF e.day > daysInMonth(e.year, e.month)
        THEN LET f == [e EXCEPT !.day = 1, !.month = e.month + 1]
             IN  IF f.month > 12
                 THEN [f EXCEPT !.month = 1, !.year = f.year + 1]
                 ELSE f
        ELSE e

tickOneSecond(t) ==
    LET a == [t EXCEPT !.second = t.second + 1]
        b == IF a.second >= 60
             THEN [a EXCEPT !.second = 0, !.minute = a.minute + 1] ELSE a
        c == IF b.minute >= 60
             THEN [b EXCEPT !.minute = 0, !.hour = b.hour + 1] ELSE b
    IN  IF c.hour >= 24
        THEN LET d == [c EXCEPT !.hour = 0]
             IN  IF d.hasDate /\ d.year >= 1970 THEN TickDate(d) ELSE d
        ELSE c

\* tickOneSecond applied n times in a row (the test of t.second has TLC
\* work out each clock before the next call is made on it)
RECURSIVE TickTimes(_, _)
TickTimes(t, n) ==
    IF n > 0 /\ t.second \in Int THEN TickTimes(tickOneSecond(t), n - 1) ELSE t

----------------------------------------------------------------------------
(* unsigned long: 32 bits, kept as two 16-bit halves so that every          *)
(* intermediate value stays a small integer                                *)

Half == 65536

U32(h, l) == [hi |-> h, lo |-> l]

\* a + d modulo 2^32, for a small non-negative d
Add32(a, d) ==
    LET l == a.lo + d
    IN  U32((a.hi + (l \div Half)) % Half, l % Half)

\* a - b modulo 2^32
Sub32(a, b) ==
    LET l == a.lo - b.lo
        borrow == IF l < 0 THEN 1 ELSE 0
    IN  U32((a.hi - b.hi - borrow + 2 * Half) % Half, (l + Half) % Half)

\* x >= k for an unsigned long x and a constant k below 2^16
Ge32(x, k) == x.hi > 0 \/ x.lo >= k

----------------------------------------------------------------------------
(* Formatting: snprintf with %02d and %04d *)

RECURSIVE DecDigits(_)
DecDigits(n) ==
    IF n < 10 THEN <<DigitChars[n + 1]>>
    ELSE Append(DecDigits(n \div 10), DigitChars[(n % 10) + 1])

RECURSIVE ZeroPad(_, _)
ZeroPad(s, width) == IF Len(s) >= width THEN s ELSE ZeroPad(<<"0">> \o s, width)

\* %0<width>d of a non-negative n
Dec(n, width) == ZeroPad(DecDigits(n), width)

\* snprintf(buf, size, ...): at most size-1 characters are stored
Truncate(s, size) == IF Len(s) > size - 1 THEN SubSeq(s, 1, size - 1) ELSE s

\* char cur[9]; snprintf(cur, sizeof(cur), "%02d:%02d:%02d", ...)
FormatTime(c) ==
    Truncate(Dec(c.hour, 2) \o <<":">> \o Dec(c.minute, 2) \o <<":">>
             \o Dec(c.second, 2), 9)

\* char line1[16]; snprintf(line1, sizeof(line1), "%02d-%02d-%04d", ...)
DateLine1(c) ==
    Truncate(Dec(IF c.hasDate /\ c.day # 0 THEN c.day ELSE 0, 2) \o <<"-">>
             \o Dec(IF c.hasDate /\ c.month # 0 THEN c.month ELSE 0, 2) \o <<"-">>
             \o Dec(IF c.hasDate /\ c.year # 0 THEN c.year ELSE 0, 4), 16)

----------------------------------------------------------------------------
(* Render shadow state: what each draw call leaves in its cache *)

\* the character with code 0
NUL == ""

\* tft.width() of the 2.8" panel in landscape (setRotation(1))
W == 320

\* barW = W - 20, set by drawSecondsBarFrameOnce
barW == W - 20

\* Arduino map(x, in_min, in_max, out_min, out_max)
map(x, in_min, in_max, out_min, out_max) ==
    ((x - in_min) * (out_max - out_min)) \div (in_max - in_min) + out_min

\* prevTimeStr after drawTimeDigits(c): strncpy(prevTimeStr, cur, 9)
drawTimeDigits(prev, c) == FormatTime(c)

\* prevDateStr after drawDateLine(c)
drawDateLine(prev, c) == IF DateLine1(c) # prev THEN DateLine1(c) ELSE prev

\* prevFillW after drawSecondsBarFill(sec)
drawSecondsBarFill(prev, sec) ==
    LET fillW == map(sec, 0, 59, 0, barW)
    IN  IF fillW = prev THEN prev ELSE fillW

\* the three caches after forceRedrawAll() with the clock c
forceRedrawAll(c) ==
    [timeStr |-> drawTimeDigits(<<NUL, NUL, NUL, NUL, NUL, NUL, NUL, NUL>>, c),
     dateStr |-> drawDateLine(<<>>, c),
     fillW |-> drawSecondsBarFill(-1, c.second)]

----------------------------------------------------------------------------
(* The seven-segment digits on the panel.  A segment counts as lit while   *)
(* every pixel its draw call painted is still in the glow colour: a fill   *)
(* of background over any part of it takes it out of the lit set.          *)

\* tft.height() of the panel in landscape
H == 240

SEG_THICK == 5
SEG_LEN == 28
SEG_HGAP == 7
SEG_VLEN == 28
COLON_W == 8
E_SP == 2

\* enum { SEG_A=0, ... SEG_G=6 }
SEG_A == 0
SEG_B == 1
SEG_C == 2
SEG_D == 3
SEG_E == 4
SEG_F == 5
SEG_G == 6

Segments == SEG_A..SEG_G
Cells == 0..5

\* DIGIT_MASK[10], the binary literals as numbers; digit n is at n + 1
DIGIT_MASK == <<63, 6, 91, 79, 102, 109, 125, 7, 127, 111>>

\* mask & (1 << s)
HasSeg(mask, s) == (mask \div (2 ^ s)) % 2 = 1

SegsOf(mask) == { s \in Segments : HasSeg(mask, s) }

\* int dcellW = SEG_LEN + 2*SEG_HGAP;
dcellW == SEG_LEN + 2 * SEG_HGAP

\* totalRowWidth(); autoSizeToFit() changes no size while this is at most
\* W - 2*MARGIN, which it is on the 320 pixel wide panel
totalRowWidth == 6 * dcellW + 2 * COLON_W + 7 * E_SP

\* setupLayout(): DIGIT_Y, startX and the DIG_X[] it walks out from there
DIGIT_Y == 56

startX ==
    LET room == IF W - totalRowWidth > 0 THEN (W - totalRowWidth) \div 2 ELSE 2
    IN  IF room > 2 THEN room ELSE 2

DIG_X(di) == startX + di * (dcellW + E_SP) + (di \div 2) * (COLON_W + E_SP)

Rect(x, y, w, h) == [x |-> x, y |-> y, w |-> w, h |-> h]

\* two rectangles share a pixel
Overlap(a, b) ==
    /\ a.w > 0 /\ a.h > 0 /\ b.w > 0 /\ b.h > 0
    /\ a.x < b.x + b.w /\ b.x < a.x + a.w
    /\ a.y < b.y + b.h /\ b.y < a.y + a.h

\* the rectangle drawDigitSegments paints or erases for segment s of cell di
SegRect(di, s) ==
    LET x0 == DIG_X(di)
        y0 == DIGIT_Y
    IN  CASE s = SEG_A -> Rect(x0 + SEG_HGAP, y0, SEG_LEN, SEG_THICK)
          [] s = SEG_G -> Rect(x0 + SEG_HGAP, y0 + SEG_VLEN + SEG_THICK,
                               SEG_LEN, SEG_THICK)
          [] s = SEG_D -> Rect(x0 + SEG_HGAP, y0 + 2 * SEG_VLEN + 2 * SEG_THICK,
                               SEG_LEN, SEG_THICK)
          [] s = SEG_B -> Rect(x0 + SEG_HGAP + SEG_LEN, y0 + (SEG_THICK \div 2),
                               SEG_THICK, SEG_VLEN)
          [] s = SEG_C -> Rect(x0 + SEG_HGAP + SEG_LEN,
                               y0 + SEG_VLEN + ((3 * SEG_THICK) \div 2),
                               SEG_THICK, SEG_VLEN)
          [] s = SEG_F -> Rect(x0, y0 + (SEG_THICK \div 2), SEG_THICK, SEG_VLEN)
          [] s = SEG_E -> Rect(x0, y0 + SEG_VLEN + ((3 * SEG_THICK) \div 2),
                               SEG_THICK, SEG_VLEN)

\* digitBounds(di, x, y, w, h)
digitBounds(di) ==
    Rect(DIG_X(di), DIGIT_Y, SEG_LEN + 2 * SEG_HGAP + SEG_THICK,
         2 * SEG_VLEN + 3 * SEG_THICK)

\* fillRectWithOceanBG(r) as the digits see it: every segment of every cell
\* that r reaches is no longer lit
EraseRect(lit, r) ==
    [d \in Cells |-> { s \in lit[d] : ~Overlap(r, SegRect(d, s)) }]

\* drawDigitSegments(x, y, mask, erase = true)
EraseSegs(lit, di, mask) ==
    [d \in Cells |->
        { s \in lit[d] :
            \A e \in SegsOf(mask) : ~Overlap(SegRect(di, e), SegRect(d, s)) }]

\* drawDigitSegments(x, y, mask, erase = false)
PaintSegs(lit, di, mask) == [lit EXCEPT ![di] = @ \cup SegsOf(mask)]

\* a digit pass in progress: the mask cache, the lit segments and the number
\* of fill and draw calls made so far
DigitState(masks, lit, ops) == [masks |-> masks, lit |-> lit, ops |-> ops]

\* hardRefreshDigit(di, newMask)
hardRefreshDigit(st, di, newMask) ==
    LET cleared == EraseRect(st.lit, digitBounds(di))
    IN  DigitState([st.masks EXCEPT ![di] = newMask],
                   IF newMask # 0 THEN PaintSegs(cleared, di, newMask)
                   ELSE cleared,
                   st.ops + 1 + Cardinality(SegsOf(newMask)))

\* the else branch of drawTimeDigits: only the segments that differ
deltaRefreshDigit(st, di, newMask) ==
    LET oldMask == st.masks[di]
        offSegs == SegsOf(oldMask) \ SegsOf(newMask)
        onSegs == SegsOf(newMask) \ SegsOf(oldMask)
        erased == [d \in Cells |->
                      { s \in st.lit[d] :
                          \A e \in offSegs :
                              ~Overlap(SegRect(di, e), SegRect(d, s)) }]
    IN  DigitState([st.masks EXCEPT ![di] = newMask],
                   [erased EXCEPT ![di] = @ \cup onSegs],
                   st.ops + Cardinality(offSegs) + Cardinality(onSegs))

HARD_REFRESH_MINUTES == 1
HARD_REFRESH_SECONDS == 1

\* di == 0 || di == 1 || (HARD_REFRESH_MINUTES && ...) || (HARD_REFRESH_SECONDS && ...)
HardCell(di) ==
    \/ di = 0 \/ di = 1
    \/ (hardRefresh.minutes # 0 /\ (di = 2 \/ di = 3))
    \/ (hardRefresh.seconds # 0 /\ (di = 4 \/ di = 5))

\* the cells visited from the seconds back to the hours
DigitOrder_backwards == <<7, 6, 4, 3, 1, 0>>

\* for (int i = 0; i < 8; i++) { if (i == 2 || i == 5) continue; ...
DigitOrder == <<0, 1, 3, 4, 6, 7>>

\* int di = (i < 2) ? i : (i < 5 ? i - 1 : i - 2);
CellOf(i) == IF i < 2 THEN i ELSE IF i < 5 THEN i - 1 ELSE i - 2

\* (cur[i] >= '0' && cur[i] <= '9') ? DIGIT_MASK[cur[i] - '0'] : 0
MaskOfChar(ch) == IF isDigitN(ch) THEN DIGIT_MASK[DigitValue(ch) + 1] ELSE 0

\* the character at index i of a C string held in a buffer of zeros
CharAt(s, i) == IF i + 1 <= Len(s) THEN s[i + 1] ELSE NUL

\* the body of the for loop of drawTimeDigits at index i
DigitStep(st, i, cur, prevStr) ==
    IF CharAt(cur, i) = CharAt(prevStr, i) THEN st
    ELSE IF HardCell(CellOf(i))
         THEN hardRefreshDigit(st, CellOf(i), MaskOfChar(CharAt(cur, i)))
         ELSE deltaRefreshDigit(st, CellOf(i), MaskOfChar(CharAt(cur, i)))

RECURSIVE DigitLoop(_, _, _, _)
DigitLoop(st, order, cur, prevStr) ==
    IF order = <<>> THEN st
    ELSE DigitLoop(DigitStep(st, Head(order), cur, prevStr), Tail(order),
                   cur, prevStr)

\* prevDigitMask and the panel after drawTimeDigits(c), with the calls made
drawDigitCells(prevStr, masks, lit, c) ==
    DigitLoop(DigitState(masks, lit, 0), DigitOrder, FormatTime(c), prevStr)

----------------------------------------------------------------------------
(* The seconds bar on the panel.  Columns are counted from barX.  The date *)
(* area's background fill reaches into the bar's first rows, so the bar is *)
(* kept as two bands of rows: `top` inside the date area, `body` below it. *)

barX == 10
barH == 10

\* barY = H - 26, set by drawSecondsBarFrameOnce
barY == H - 26

\* fillRectWithOceanBG(0, H-70, W, 45) of drawDateLine
DateRect == Rect(0, H - 70, W, 45)

Columns(x, w) == x..(x + w - 1)

\* tft.fillRect(barX + x, barY, w, barH, COL_BAR)
BarFill(lit, x, w) ==
    [top |-> lit.top \cup Columns(x, w), body |-> lit.body \cup Columns(x, w)]

\* fillRectWithOceanBG(barX + x, barY, w, barH)
BarErase(lit, x, w) ==
    [top |-> lit.top \ Columns(x, w), body |-> lit.body \ Columns(x, w)]

\* the date area's fill as the bar sees it
BarUnderDate(lit) ==
    IF Overlap(DateRect, Rect(barX, barY, barW, barH))
    THEN [lit EXCEPT !.top = {}] ELSE lit

\* tft.drawRoundRect(barX-1, barY-1, barW+2, barH+2, 4, COL_GLOW2)
FrameRect == Rect(barX - 1, barY - 1, barW + 2, barH + 2)

Rows(r) == r.y..(r.y + r.h - 1)

\* the rows of the outline after drawSecondsBarFrameOnce()
drawSecondsBarFrameOnce == Rows(FrameRect)

\* the date area's fill as the outline sees it: the fill is as wide as the
\* panel, so a row of the outline it reaches is wiped whole
FrameUnderDate(frame) ==
    { y \in frame :
        ~Overlap(DateRect, Rect(FrameRect.x, y, FrameRect.w, 1)) }

\* the panel after drawSecondsBarFill(sec)
drawSecondsBarLit(lit, prev, sec) ==
    LET fillW == map(sec, 0, 59, 0, barW)
    IN  IF fillW = prev THEN lit
        ELSE IF prev < 0 THEN BarFill(lit, 0, fillW)
        ELSE IF fillW > prev THEN BarFill(lit, prev, fillW - prev)
        ELSE BarErase(lit, fillW, prev - fillW)

\* fill and erase calls drawSecondsBarFill(sec) makes
drawSecondsBarOps(prev, sec) ==
    LET fillW == map(sec, 0, 59, 0, barW)
    IN  IF fillW = prev THEN 0 ELSE 1

----------------------------------------------------------------------------
(* The date area *)

\* weekdayIndex without its century terms
weekdayIndex_julian(y, m, d) ==
    LET t == <<0, 3, 2, 5, 0, 3, 5, 1, 4, 6, 2, 4>>
        yy == IF m < 3 THEN y - 1 ELSE y
    IN  (yy + (yy \div 4) + t[m] + d) % 7

\* weekdayIndex without `if (m < 3) y -= 1;`
weekdayIndex_unshifted(y, m, d) ==
    LET t == <<0, 3, 2, 5, 0, 3, 5, 1, 4, 6, 2, 4>>
    IN  (y + (y \div 4) - (y \div 100) + (y \div 400) + t[m] + d) % 7

\* int weekdayIndex(int y, int m, int d)
weekdayIndex(y, m, d) ==
    LET t == <<0, 3, 2, 5, 0, 3, 5, 1, 4, 6, 2, 4>>
        yy == IF m < 3 THEN y - 1 ELSE y
    IN  (yy + (yy \div 4) - (yy \div 100) + (yy \div 400) + t[m] + d) % 7

WEEKDAY_NAME ==
    <<"Sunday", "Monday", "Tuesday", "Wednesday", "Thursday", "Friday",
      "Saturday">>

MONTH_NAME ==
    <<"January", "February", "March", "April", "May", "June", "July",
      "August", "September", "October", "November", "December">>

\* line2 of drawDateLine: "%s , %s %d", the two names kept whole; empty when
\* the date does not qualify for a weekday
DateLine2(c) ==
    IF c.hasDate /\ c.year >= 1970 /\ c.month >= 1 /\ c.month <= 12 /\ c.day >= 1
    THEN <<WEEKDAY_NAME[weekdayIndex(c.year, c.month, c.day) + 1], " ", ",",
           " ", MONTH_NAME[c.month], " ">> \o DecDigits(c.day)
    ELSE <<>>

\* the date area always repainted
DateDue_always(prev, c) == TRUE

\* if (strcmp(line1, prevDateStr) != 0)
DateDue(prev, c) == DateLine1(c) # prev

\* the two lines in the date area after drawDateLine(c)
drawDateShown(shown, prev, c) ==
    IF DateDue(prev, c)
    THEN [line1 |-> DateLine1(c), line2 |-> DateLine2(c)] ELSE shown

\* fills and prints drawDateLine(c) makes
drawDateOps(prev, c) == IF DateDue(prev, c) THEN 3 ELSE 0

----------------------------------------------------------------------------
(* The environment line *)

ENV_LINE_LEN == 26
ENV_INTERVAL == 2000

\* a float of the sensor: NAN, or a value kept in tenths
NAN == [nan |-> TRUE, x |-> 0]
Tenths(x) == [nan |-> FALSE, x |-> x]
isnan(f) == f.nan

\* what dht.readHumidity() and dht.readTemperature() return
Reading(h, t) == [h |-> h, t |-> t]

Abs(x) == IF x < 0 THEN -x ELSE x

RECURSIVE SpacePad(_, _)
SpacePad(s, width) ==
    IF Len(s) >= width THEN s ELSE SpacePad(<<" ">> \o s, width)

\* dtostrf(t, 4, 1, tbuf) of a value in tenths
dtostrf1(x, width) ==
    SpacePad((IF x < 0 THEN <<"-">> ELSE <<>>) \o DecDigits(Abs(x) \div 10)
             \o <<".">> \o DecDigits(Abs(x) % 10), width)

\* dtostrf(h, 3, 0, hbuf) of a value in tenths: rounded to a whole number
dtostrf0(x, width) ==
    SpacePad((IF x < 0 THEN <<"-">> ELSE <<>>) \o DecDigits((Abs(x) + 5) \div 10),
             width)

\* "TEMP --.- C   HUM -- %"
EnvPlaceholder ==
    <<"T", "E", "M", "P", " ", "-", "-", ".", "-", " ", "C", " ", " ", " ",
      "H", "U", "M", " ", "-", "-", " ", "%">>

\* snprintf(line, sizeof(line), "TEMP %4s C   HUM %3s %%", tbuf, hbuf)
EnvText(r) ==
    Truncate(<<"T", "E", "M", "P", " ">> \o dtostrf1(r.t.x, 4)
             \o <<" ", "C", " ", " ", " ", "H", "U", "M", " ">>
             \o dtostrf0(r.h.x, 3) \o <<" ", "%">>, ENV_LINE_LEN + 1)

RECURSIVE PadRight(_, _)
PadRight(s, width) ==
    IF Len(s) >= width THEN s ELSE PadRight(Append(s, " "), width)

\* what drawEnvLine(s) prints: s cut or padded with spaces to ENV_LINE_LEN
drawEnvLine(s) ==
    PadRight(IF Len(s) > ENV_LINE_LEN THEN SubSeq(s, 1, ENV_LINE_LEN) ELSE s,
             ENV_LINE_LEN)

\* strncmp(a, b, ENV_LINE_LEN) != 0
EnvTextDiffers(a, b) ==
    Truncate(a, ENV_LINE_LEN + 1) # Truncate(b, ENV_LINE_LEN + 1)

\* fabs(t - lastT) >= 0.2 || fabs(h - lastH) >= 1.0, with the isnan tests
changedValues(r, lt, lh) ==
    \/ isnan(lt) \/ isnan(lh)
    \/ Abs(r.t.x - lt.x) >= 2
    \/ Abs(r.h.x - lh.x) >= 10

\* the redraw decided by the text alone
EnvRedrawDue_textOnly(r, lt, lh, last) == EnvTextDiffers(EnvText(r), last)

\* if (changedValues || changedText)
EnvRedrawDue(r, lt, lh, last) ==
    changedValues(r, lt, lh) \/ EnvTextDiffers(EnvText(r), last)

\* the failed reading drawn only when no valid one was drawn before
EnvFailDue_onlyFirst(last, lt) == isnan(lt) /\ EnvTextDiffers(EnvPlaceholder, last)

\* if (strncmp(line, lastEnvStr, ENV_LINE_LEN) != 0)  -- the else branch
EnvFailDue(last, lt) == EnvTextDiffers(EnvPlaceholder, last)

EnvState(read, str, lt, lh, shown, drawn, taken) ==
    [lastEnvRead |-> read, lastEnvStr |-> str, lastT |-> lt, lastH |-> lh,
     envShown |-> shown, envDrawn |-> drawn, envRead |-> taken]

NoSample == [sampled |-> FALSE, r |-> Reading(NAN, NAN)]
Sampled(r) == [sampled |-> TRUE, r |-> r]

\* updateEnv() called when millis() is m and the sensor would answer r
updateEnv(e, m, r) ==
    IF ~Ge32(Sub32(m, e.lastEnvRead), ENV_INTERVAL)
    THEN EnvState(e.lastEnvRead, e.lastEnvStr, e.lastT, e.lastH, e.envShown,
                  0, NoSample)
    ELSE IF ~isnan(r.h) /\ ~isnan(r.t)
    THEN IF EnvRedrawDue(r, e.lastT, e.lastH, e.lastEnvStr)
         THEN EnvState(m, Truncate(EnvText(r), ENV_LINE_LEN + 1), r.t, r.h,
                       drawEnvLine(EnvText(r)), 1, Sampled(r))
         ELSE EnvState(m, e.lastEnvStr, e.lastT, e.lastH, e.envShown, 0,
                       Sampled(r))
    ELSE IF EnvFailDue(e.lastEnvStr, e.lastT)
         THEN EnvState(m, Truncate(EnvPlaceholder, ENV_LINE_LEN + 1), e.lastT,
                       e.lastH, drawEnvLine(EnvPlaceholder), 1, Sampled(r))
         ELSE EnvState(m, e.lastEnvStr, e.lastT, e.lastH, e.envShown, 0,
                       Sampled(r))

----------------------------------------------------------------------------
(* forceRedrawAll() on the panel *)

\* memset(prevTimeStr, 0, ...)
ClearedTimeStr == <<NUL, NUL, NUL, NUL, NUL, NUL, NUL, NUL>>

ClearedMasks == [d \in Cells |-> 0]

\* prevDigitMask and the panel after forceRedrawAll() with the clock c
forceRedrawPanel(lit, bar, c) ==
    LET digits == drawDigitCells(ClearedTimeStr, ClearedMasks, lit, c)
        underDate == IF DateDue(<<>>, c) THEN BarUnderDate(bar) ELSE bar
    IN  [masks |-> digits.masks,
         lit |-> digits.lit,
         date |-> drawDateShown([line1 |-> <<>>, line2 |-> <<>>], <<>>, c),
         frame |-> drawSecondsBarFrameOnce,
         bar |-> drawSecondsBarLit(underDate, -1, c.second),
         env |-> drawEnvLine(EnvPlaceholder)]

----------------------------------------------------------------------------
(* Bounds of the model and the sender's repertoire *)

\* lines the sender writes in one run
MaxLines == 2

\* milliseconds of run time explored
MaxUptime == 3000

\* a line may arrive in two pieces, the first of this many bytes
SplitAt == 4

\* how long the program may take between two looks at millis()
Durations == {500, 1000}

\* the sensor unplugged: every read fails
SensorDown == { Reading(NAN, NAN) }

ShortText(h, mi, s) == Dec(h, 2) \o <<":">> \o Dec(mi, 2) \o <<":">> \o Dec(s, 2)

LongText(y, mo, d, h, mi, s) ==
    Dec(y, 4) \o <<"-">> \o Dec(mo, 2) \o <<"-">> \o Dec(d, 2) \o <<" ">>
    \o ShortText(h, mi, s)

\* what the sender may write: terminated lines, valid and invalid, of both
\* grammars
Lines ==
    { ShortText(23, 59, 58) \o <<"\r", "\n">>,
      LongText(2024, 2, 31, 23, 59, 59) \o <<"\n">>,
      ShortText(24, 0, 0) \o <<"\n">> }

\* lines for the panel: the last seconds of a year, and a time whose hour
\* differs from midnight in its tens digit only
HudLines ==
    { LongText(2024, 12, 31, 23, 59, 58) \o <<"\n">>,
      ShortText(10, 0, 0) \o <<"\n">> }

\* milliseconds of run time explored when the sensor is watched
MaxEnvUptime == 6000

\* time passes by half or all of a sampling interval
EnvDurations == {1000, ENV_INTERVAL}

\* what the sensor may answer: no reading (both or one value NAN), a reading,
\* the same with the temperature 0.1 higher, the same with the humidity 0.4
\* higher, and one far from it
Readings ==
    { Reading(NAN, NAN),
      Reading(NAN, Tenths(243)),
      Reading(Tenths(560), Tenths(243)),
      Reading(Tenths(560), Tenths(244)),
      Reading(Tenths(564), Tenths(243)),
      Reading(Tenths(580), Tenths(250)) }

\* the line that syncs the clock while the sensor is watched
EnvLines == { ShortText(12, 0, 0) \o <<"\n">> }

\* n bytes that belong to no time
Filler(n) == [i \in 1..n |-> "x"]

\* lines longer than the line buffer: a time followed by filler, 130 bytes,
\* and filler followed by a time, 135 bytes
LongLines ==
    { ShortText(23, 59, 58) \o Filler(122) \o <<"\n">>,
      Filler(127) \o ShortText(23, 59, 58) \o <<"\n">> }

----------------------------------------------------------------------------
(* The serial line reader of loop() *)

\* sizeof(str_in)
StrInSize == 128

\* the read loop `while (BT_SERIAL.available())`: how many bytes it takes
\* from the queue q -- those up to and including the first '\n' or '\r',
\* or all of q when there is none
BytesTaken(q) ==
    LET ends == {i \in 1..Len(q) : q[i] = "\n" \/ q[i] = "\r"}
    IN  IF ends = {} THEN Len(q)
        ELSE CHOOSE i \in ends : \A j \in ends : i <= j

\* in_i = 0; while (...) {...}; str_in[in_i] = '\0';  -- a byte that is no
\* terminator is stored only while in_i < sizeof(str_in) - 1
ReadLine(q) ==
    LET taken == BytesTaken(q)
        ended == taken > 0 /\ (q[taken] = "\n" \/ q[taken] = "\r")
        offered == IF ended THEN taken - 1 ELSE taken
        stored == IF offered < StrInSize - 1 THEN offered ELSE StrInSize - 1
    IN  [line |-> SubSeq(q, 1, stored), rest |-> SubSeq(q, taken + 1, Len(q))]

\* every line answered as if it had been accepted
SyncReply_always(ok, line) == [tag |-> "SYNCED: ", line |-> line]

\* BT_SERIAL.print(prefix); BT_SERIAL.println(str_in);
SyncReply(ok, line) ==
    [tag |-> IF ok THEN "SYNCED: " ELSE "INVALID: ", line |-> line]

\* snprintf(lastStatus, ...)
StatusAfterLine(ok) == IF ok THEN "Time synced" ELSE "Invalid time format!"

\* ct = parsed; ct.isSet = true;  -- only in the success branch
ClockAfterLine(p, c) == IF p.ok THEN [p.out EXCEPT !.isSet = TRUE] ELSE c

\* the tick reference realigned on every line, accepted or not
TickRefAfterLine_always(ok, last, t) == t

\* lastTickMs = millis();  -- only in the success branch
TickRefAfterLine(ok, last, t) == IF ok THEN t ELSE last

\* the repaint request forgotten
RepaintAfterLine_never(ok, flag) == flag

\* repaintAll = true;  -- only in the success branch
RepaintAfterLine(ok, flag) == IF ok THEN TRUE ELSE flag

----------------------------------------------------------------------------
(* The 1 Hz step of loop() *)

\* the 1 Hz step without its `if (ct.isSet)`
TickDue_unguarded(c, m, last) == Ge32(Sub32(m, last), 1000)

\* the test written without the subtraction: ms >= lastTickMs + 1000, the
\* sum not reduced modulo 2^32
TickDue_absolute(c, m, last) ==
    LET l == last.lo + 1000
        h == last.hi + (l \div Half)
    IN  c.isSet /\ (m.hi > h \/ (m.hi = h /\ m.lo >= l % Half))

\* if (ct.isSet) { while (ms - lastTickMs >= 1000UL) {
TickDue(c, m, last) == c.isSet /\ Ge32(Sub32(m, last), 1000)

\* lastTickMs = ms; -- snapping to the latest sample instead of stepping
AdvanceTickRef_snap(last, m) == m

\* lastTickMs += 1000UL;
AdvanceTickRef(last, m) == Add32(last, 1000)

\* if (ms - subAnimMs >= 30UL)
AnimDue(m, sub) == Ge32(Sub32(m, sub), 30)

\* if (ct.hour==0 && ct.minute==0 && ct.second==0)
IsMidnight(c) == c.hour = 0 /\ c.minute = 0 /\ c.second = 0

----------------------------------------------------------------------------
(* Inputs for parseTime called on its own: texts built from field values,  *)
(* in and out of range, texts with one character replaced, cut texts; each *)
(* behind optional blanks and in front of optional trailing characters.    *)

HourVals == {0, 9, 23, 24}
MinuteVals == {0, 59, 60}
SecondVals == {0, 59, 60}
YearVals == {0, 1969, 1970, 2024, 9999}
MonthVals == {0, 1, 12, 13}
DayVals == {0, 1, 31, 32}
LongTimes == {<<0, 0, 0>>, <<23, 59, 59>>, <<24, 0, 0>>, <<12, 60, 30>>, <<12, 30, 60>>}

Blanks == {<<>>, <<" ">>, <<"\t", " ">>}
Trailers == {<<>>, <<"x">>, <<"7">>, <<" ">>}
Replacements == {"x", ":", "-", " ", "0"}

ParseCase(kind, text, pre, suf, y, mo, d, h, mi, s) ==
    [kind |-> kind, text |-> text, pre |-> pre, suf |-> suf,
     y |-> y, mo |-> mo, d |-> d, h |-> h, mi |-> mi, s |-> s]

OtherCase(text, pre, suf) == ParseCase("other", text, pre, suf, 0, 0, 0, 0, 0, 0)

ShortCases ==
    { ParseCase("short", ShortText(h, mi, s), pre, suf, 0, 0, 0, h, mi, s) :
        h \in HourVals, mi \in MinuteVals, s \in SecondVals,
        pre \in Blanks, suf \in Trailers }

LongCases ==
    { ParseCase("long", LongText(y, mo, d, t[1], t[2], t[3]), pre, suf,
                y, mo, d, t[1], t[2], t[3]) :
        y \in YearVals, mo \in MonthVals, d \in DayVals, t \in LongTimes,
        pre \in Blanks, suf \in Trailers }

BaseTexts == { ShortText(12, 34, 56), LongText(2024, 2, 29, 12, 34, 56) }

DamagedTexts ==
    UNION { { [t EXCEPT ![i] = c] : i \in 1..Len(t), c \in Replacements } :
            t \in BaseTexts }

CutTexts == UNION { { SubSeq(t, 1, k) : k \in 0..(Len(t) - 1) } : t \in BaseTexts }

OtherCases ==
    { OtherCase(t, pre, suf) :
        t \in DamagedTexts \cup CutTexts, pre \in Blanks, suf \in Trailers }

ParseCases == ShortCases \cup LongCases \cup OtherCases

\* values the caller's ClockTime may hold before the call
OutBefore == { ZeroClock, ClockTime(2001, 2, 3, 4, 5, 6, TRUE, TRUE) }

----------------------------------------------------------------------------
(* Starting clocks for tickOneSecond called on its own, and its bounds *)

\* tickOneSecond calls explored from one starting clock (two days)
MaxTicks == 172800

\* single one-second steps taken in a row
MaxRun == 2

Dated(y, mo, d, h, mi, s) == ClockTime(y, mo, d, h, mi, s, TRUE, TRUE)
Undated(h, mi, s) == ClockTime(0, 0, 0, h, mi, s, FALSE, TRUE)

TickStarts ==
    { Dated(2024, 2, 28, 23, 59, 59), Dated(2023, 2, 28, 23, 59, 59),
      Dated(2000, 2, 28, 23, 59, 58), Dated(2100, 2, 28, 23, 59, 58),
      Dated(2024, 2, 29, 12, 0, 0),   Dated(2024, 12, 30, 23, 59, 58),
      Dated(2024, 4, 29, 23, 59, 59), Dated(2024, 1, 31, 0, 0, 0),
      Dated(1970, 1, 1, 0, 0, 0),     Dated(9999, 12, 30, 23, 58, 59),
      Undated(23, 59, 58), Undated(0, 0, 0), Undated(12, 34, 56),
      ZeroClock }

\* tickOneSecond applied 60 times, and that applied 60 times
TickMinuteOf(t) == TickTimes(t, 60)

RECURSIVE MinuteTimes(_, _)
MinuteTimes(t, n) ==
    IF n > 0 /\ t.second \in Int THEN MinuteTimes(TickMinuteOf(t), n - 1) ELSE t

TickHourOf(t) == MinuteTimes(t, 60)

----------------------------------------------------------------------------
(* Initial state: the globals as constructed, before setup() *)

LoopInit ==
    /\ pc = "setup"
    /\ now = U32(0, 0)
    /\ uptime = 0
    /\ ms = U32(0, 0)
    /\ lastTickMs = U32(0, 0)
    /\ subAnimMs = U32(0, 0)
    /\ repaintAll = FALSE
    /\ ct = ZeroClock
    /\ wire = <<>>
    /\ rx = <<>>
    /\ str_in = <<>>
    /\ in_i = 0
    /\ tx = <<>>
    /\ lastStatus = "Waiting for time"
    /\ prevTimeStr = <<"?", "?", ":", "?", "?", ":", "?", "?">>
    /\ prevDateStr = <<>>
    /\ prevFillW = -1
    /\ prevDigitMask = ClearedMasks
    /\ segLit = [d \in Cells |-> {}]
    /\ barLit = [top |-> {}, body |-> {}]
    /\ dateShown = [line1 |-> <<>>, line2 |-> <<>>]
    /\ frameLit = {}
    /\ nDateTick = 0
    /\ lastEnvRead = U32(0, 0)
    /\ lastEnvStr = <<>>
    /\ lastT = NAN
    /\ lastH = NAN
    /\ envShown = <<>>
    /\ envDrawn = 0
    /\ envRead = NoSample
    /\ envUp = 0
    /\ nSent = 0
    /\ syncP = ZeroClock
    /\ syncT = U32(0, 0)
    /\ syncUp = 0
    /\ nSync = 0
    /\ nForce = 0
    /\ ticksIter = 0

\* the caches and the panel as they are before setup()
ShadowAsBuilt ==
    [timeStr |-> <<"?", "?", ":", "?", "?", ":", "?", "?">>,
     masks |-> ClearedMasks, fillW |-> -1, dateStr |-> <<>>,
     lit |-> [d \in Cells |-> {}], bar |-> [top |-> {}, body |-> {}],
     date |-> [line1 |-> <<>>, line2 |-> <<>>]]

NoOps == [digits |-> 0, bar |-> 0, date |-> 0]

DrawIdle ==
    /\ d_clock = ZeroClock
    /\ d_shadow = ShadowAsBuilt
    /\ d_ops = NoOps
    /\ d_again = 0

WeekdayIdle ==
    /\ w_date = <<1970, 1, 1>>
    /\ w_res = 0
    /\ w_done = FALSE

ParseIdle ==
    /\ p_case = OtherCase(<<>>, <<>>, <<>>)
    /\ p_line = <<>>
    /\ p_out = ZeroClock
    /\ p_res = ParseFail(ZeroClock)
    /\ p_done = FALSE

TickIdle ==
    /\ t_start = ZeroClock
    /\ t_cur = ZeroClock
    /\ t_n = 0

\* the sizes as the globals are initialised
SizesAsBuilt ==
    [E_SP |-> E_SP, COLON_W |-> COLON_W, SEG_LEN |-> SEG_LEN,
     SEG_VLEN |-> SEG_VLEN, SEG_THICK |-> SEG_THICK]

FitIdle ==
    /\ a_W = W
    /\ a_size = SizesAsBuilt
    /\ a_g = 0
    /\ a_pc = "idle"

\* #define HARD_REFRESH_MINUTES 1, #define HARD_REFRESH_SECONDS 1
BuildAsShipped ==
    hardRefresh = [minutes |-> HARD_REFRESH_MINUTES,
                   seconds |-> HARD_REFRESH_SECONDS]

Init ==
    /\ LoopInit /\ ParseIdle /\ TickIdle /\ DrawIdle /\ WeekdayIdle
    /\ FitIdle /\ BuildAsShipped

----------------------------------------------------------------------------
(* The environment: the clock runs, the sender writes, bytes arrive.       *)
(* Only the serial step reads the receive queue and only the sync and the  *)
(* sample of `ms` read millis(), so the environment is let in just before  *)
(* those reads; millis() is counted from the end of setup().               *)

Elapse(d) ==
    /\ UNCHANGED <<parseVars, tickVars, drawVars, weekVars, fitVars,
                   buildVars>>
    /\ UNCHANGED <<screenVars, envVars>>
    /\ pc \in {"serial", "sample"}
    /\ uptime + d <= MaxUptime
    /\ uptime' = uptime + d
    /\ now' = Add32(now, d)
    /\ UNCHANGED <<pc, ms, lastTickMs, subAnimMs, repaintAll, ct, wire, rx,
                   str_in, in_i, tx, lastStatus, prevTimeStr, prevDateStr,
                   prevFillW, nSent, syncP, syncT, syncUp,
                   nSync, nForce, ticksIter>>

Send(l) ==
    /\ UNCHANGED <<parseVars, tickVars, drawVars, weekVars, fitVars,
                   buildVars>>
    /\ UNCHANGED <<screenVars, envVars>>
    /\ pc = "serial"
    /\ nSent < MaxLines
    /\ wire = <<>>
    /\ wire' = l
    /\ nSent' = nSent + 1
    /\ UNCHANGED <<pc, now, uptime, ms, lastTickMs, subAnimMs, repaintAll, ct,
                   rx, str_in, in_i, tx, lastStatus, prevTimeStr, prevDateStr,
                   prevFillW, syncP, syncT, syncUp,
                   nSync, nForce, ticksIter>>

Arrive(k) ==
    /\ UNCHANGED <<parseVars, tickVars, drawVars, weekVars, fitVars,
                   buildVars>>
    /\ UNCHANGED <<screenVars, envVars>>
    /\ pc = "serial"
    /\ k \in 1..Len(wire)
    /\ rx' = rx \o SubSeq(wire, 1, k)
    /\ wire' = SubSeq(wire, k + 1, Len(wire))
    /\ UNCHANGED <<pc, now, uptime, ms, lastTickMs, subAnimMs, repaintAll, ct,
                   str_in, in_i, tx, lastStatus, prevTimeStr, prevDateStr,
                   prevFillW, nSent, syncP, syncT, syncUp,
                   nSync, nForce, ticksIter>>

----------------------------------------------------------------------------
(* setup() and the steps of loop(), in program order *)

Setup ==
    /\ UNCHANGED <<parseVars, tickVars, drawVars, weekVars, fitVars,
                   buildVars>>
    /\ pc = "setup"
    /\ LET f == forceRedrawAll(ct)
           g == forceRedrawPanel(segLit, barLit, ct)
       IN  /\ prevTimeStr' = f.timeStr
           /\ prevDateStr' = f.dateStr
           /\ prevFillW' = f.fillW
           /\ prevDigitMask' = g.masks
           /\ segLit' = g.lit
           /\ barLit' = g.bar
           /\ dateShown' = g.date
           /\ frameLit' = g.frame
           /\ envShown' = g.env
    /\ UNCHANGED <<nDateTick, lastEnvRead, lastEnvStr, lastT, lastH, envDrawn,
                   envRead, envUp>>
    /\ nForce' = nForce + 1
    /\ lastTickMs' = now
    /\ subAnimMs' = now
    /\ pc' = "serial"
    /\ UNCHANGED <<now, uptime, ms, repaintAll, ct, wire, rx, str_in, in_i, tx,
                   lastStatus, nSent, syncP, syncT, syncUp,
                   nSync, ticksIter>>

\* "Read Bluetooth line": nothing available
SerialIdle ==
    /\ UNCHANGED <<parseVars, tickVars, drawVars, weekVars, fitVars,
                   buildVars>>
    /\ UNCHANGED <<screenVars, envVars>>
    /\ pc = "serial"
    /\ rx = <<>>
    /\ pc' = "sample"
    /\ ticksIter' = 0
    /\ tx' = <<>>
    /\ UNCHANGED <<now, uptime, ms, lastTickMs, subAnimMs, repaintAll, ct, wire,
                   rx, str_in, in_i, lastStatus, prevTimeStr, prevDateStr,
                   prevFillW, nSent, syncP, syncT, syncUp,
                   nSync, nForce>>

\* "Read Bluetooth line": a line is read, parsed and answered
SerialLine ==
    /\ UNCHANGED <<parseVars, tickVars, drawVars, weekVars, fitVars,
                   buildVars>>
    /\ pc = "serial"
    /\ rx # <<>>
    /\ LET r == ReadLine(rx)
           p == parseTime(r.line, ZeroClock)
       IN  /\ rx' = r.rest
           /\ str_in' = r.line
           /\ in_i' = Len(r.line)
           /\ IF Len(r.line) > 0
              THEN /\ ct' = ClockAfterLine(p, ct)
                   /\ lastTickMs' = TickRefAfterLine(p.ok, lastTickMs, now)
                   /\ repaintAll' = RepaintAfterLine(p.ok, repaintAll)
                   /\ tx' = <<SyncReply(p.ok, r.line)>>
                   /\ lastStatus' = StatusAfterLine(p.ok)
                   /\ syncP' = IF p.ok THEN p.out ELSE syncP
                   /\ syncT' = IF p.ok THEN now ELSE syncT
                   /\ syncUp' = IF p.ok THEN uptime ELSE syncUp
                   /\ nSync' = IF p.ok THEN nSync + 1 ELSE nSync
                   /\ nDateTick' = IF p.ok THEN 0 ELSE nDateTick
              ELSE /\ tx' = <<>>
                   /\ UNCHANGED <<ct, lastTickMs, repaintAll, lastStatus,
                                   syncP, syncT, syncUp,
                                   nSync, nDateTick>>
    /\ UNCHANGED <<prevDigitMask, segLit, barLit, dateShown, frameLit,
                   envVars>>
    /\ pc' = "sample"
    /\ ticksIter' = 0
    /\ UNCHANGED <<now, uptime, ms, subAnimMs, wire, prevTimeStr, prevDateStr,
                   prevFillW, nSent, nForce>>

\* unsigned long ms = millis();
Sample ==
    /\ UNCHANGED <<parseVars, tickVars, drawVars, weekVars, fitVars,
                   buildVars>>
    /\ UNCHANGED <<screenVars, envVars>>
    /\ pc = "sample"
    /\ ms' = now
    /\ pc' = "anim"
    /\ UNCHANGED <<now, uptime, lastTickMs, subAnimMs, repaintAll, ct, wire, rx,
                   str_in, in_i, tx, lastStatus, prevTimeStr, prevDateStr,
                   prevFillW, nSent, syncP, syncT, syncUp,
                   nSync, nForce, ticksIter>>

\* "~30ms UI animations"
Anim(r) ==
    /\ UNCHANGED <<parseVars, tickVars, drawVars, weekVars, fitVars,
                   buildVars>>
    /\ pc = "anim"
    /\ subAnimMs' = IF AnimDue(ms, subAnimMs) THEN ms ELSE subAnimMs
    /\ LET e == EnvState(lastEnvRead, lastEnvStr, lastT, lastH, envShown,
                         envDrawn, envRead)
           f == IF AnimDue(ms, subAnimMs) THEN updateEnv(e, now, r)
                ELSE [e EXCEPT !.envDrawn = 0, !.envRead = NoSample]
       IN  /\ lastEnvRead' = f.lastEnvRead
           /\ lastEnvStr' = f.lastEnvStr
           /\ lastT' = f.lastT
           /\ lastH' = f.lastH
           /\ envShown' = f.envShown
           /\ envDrawn' = f.envDrawn
           /\ envRead' = f.envRead
           /\ envUp' = IF f.envRead.sampled THEN uptime ELSE envUp
    /\ UNCHANGED screenVars
    /\ pc' = "tick"
    /\ UNCHANGED <<now, uptime, ms, lastTickMs, repaintAll, ct, wire, rx,
                   str_in, in_i, tx, lastStatus, prevTimeStr, prevDateStr,
                   prevFillW, nSent, syncP, syncT, syncUp,
                   nSync, nForce, ticksIter>>

\* one pass of the catch-up while loop
TickOne ==
    /\ UNCHANGED <<parseVars, tickVars, drawVars, weekVars, fitVars,
                   buildVars>>
    /\ pc = "tick"
    /\ TickDue(ct, ms, lastTickMs)
    /\ lastTickMs' = AdvanceTickRef(lastTickMs, ms)
    /\ ct' = tickOneSecond(ct)
    /\ prevTimeStr' = drawTimeDigits(prevTimeStr, ct')
    /\ prevFillW' = drawSecondsBarFill(prevFillW, ct'.second)
    /\ prevDateStr' = IF IsMidnight(ct') THEN drawDateLine(prevDateStr, ct')
                      ELSE prevDateStr
    /\ LET digits == drawDigitCells(prevTimeStr, prevDigitMask, segLit, ct')
           bar == drawSecondsBarLit(barLit, prevFillW, ct'.second)
           dateDue == IsMidnight(ct') /\ DateDue(prevDateStr, ct')
       IN  /\ prevDigitMask' = digits.masks
           /\ segLit' = digits.lit
           /\ barLit' = IF dateDue THEN BarUnderDate(bar) ELSE bar
           /\ frameLit' = IF dateDue THEN FrameUnderDate(frameLit)
                           ELSE frameLit
           /\ dateShown' = IF IsMidnight(ct')
                            THEN drawDateShown(dateShown, prevDateStr, ct')
                            ELSE dateShown
           /\ nDateTick' = IF dateDue THEN nDateTick + 1 ELSE nDateTick
    /\ UNCHANGED envVars
    /\ ticksIter' = ticksIter + 1
    /\ UNCHANGED <<pc, now, uptime, ms, subAnimMs, repaintAll, wire, rx, str_in,
                   in_i, tx, lastStatus, nSent, syncP, syncT, syncUp,
                   nSync, nForce>>

\* the clock is not set, or less than a second is left: the loop is left
TickDone ==
    /\ UNCHANGED <<parseVars, tickVars, drawVars, weekVars, fitVars,
                   buildVars>>
    /\ UNCHANGED <<screenVars, envVars>>
    /\ pc = "tick"
    /\ ~TickDue(ct, ms, lastTickMs)
    /\ pc' = "repaint"
    /\ UNCHANGED <<now, uptime, ms, lastTickMs, subAnimMs, repaintAll, ct, wire,
                   rx, str_in, in_i, tx, lastStatus, prevTimeStr, prevDateStr,
                   prevFillW, nSent, syncP, syncT, syncUp,
                   nSync, nForce, ticksIter>>

\* if (repaintAll) { forceRedrawAll(); repaintAll = false; }
Repaint ==
    /\ UNCHANGED <<parseVars, tickVars, drawVars, weekVars, fitVars,
                   buildVars>>
    /\ pc = "repaint"
    /\ IF repaintAll
       THEN LET f == forceRedrawAll(ct)
                g == forceRedrawPanel(segLit, barLit, ct)
            IN  /\ prevTimeStr' = f.timeStr
                /\ prevDateStr' = f.dateStr
                /\ prevFillW' = f.fillW
                /\ prevDigitMask' = g.masks
                /\ segLit' = g.lit
                /\ barLit' = g.bar
                /\ dateShown' = g.date
                /\ frameLit' = g.frame
                /\ envShown' = g.env
                /\ nForce' = nForce + 1
                /\ repaintAll' = FALSE
       ELSE UNCHANGED <<prevTimeStr, prevDateStr, prevFillW, nForce, repaintAll,
                        prevDigitMask, segLit, barLit, dateShown, frameLit,
                        envShown>>
    /\ UNCHANGED <<nDateTick, lastEnvRead, lastEnvStr, lastT, lastH, envDrawn,
                   envRead, envUp>>
    /\ pc' = "delay"
    /\ UNCHANGED <<now, uptime, ms, lastTickMs, subAnimMs, ct, wire, rx, str_in,
                   in_i, tx, lastStatus, nSent, syncP, syncT, syncUp,
                   nSync, ticksIter>>

\* delay(6); and loop() is entered again
Delay ==
    /\ UNCHANGED <<parseVars, tickVars, drawVars, weekVars, fitVars,
                   buildVars>>
    /\ UNCHANGED <<screenVars, envVars>>
    /\ pc = "delay"
    /\ pc' = "serial"
    /\ UNCHANGED <<now, uptime, ms, lastTickMs, subAnimMs, repaintAll, ct, wire,
                   rx, str_in, in_i, tx, lastStatus, prevTimeStr, prevDateStr,
                   prevFillW, nSent, syncP, syncT, syncUp,
                   nSync, nForce, ticksIter>>

Next ==
    \/ \E d \in Durations : Elapse(d)
    \/ \E l \in Lines : Send(l)
    \/ \E k \in {SplitAt, Len(wire)} : Arrive(k)
    \/ Setup
    \/ SerialIdle
    \/ SerialLine
    \/ Sample
    \/ \E r \in SensorDown : Anim(r)
    \/ TickOne
    \/ TickDone
    \/ Repaint
    \/ Delay

Spec == Init /\ [][Next]_vars

\* Between the millis() of a sync and the sample of `ms` in the same
\* iteration lie two prints and drawTitleStrip(), far less than a second:
\* while the repaint a sync asked for is pending, time passes only as long
\* as no tick becomes due.
BriefElapse(d) ==
    /\ Elapse(d)
    /\ pc = "sample" /\ repaintAll => ~Ge32(Sub32(now', lastTickMs), 1000)

\* the same program with the lines of HudLines, each arriving whole
NextHud ==
    \/ \E d \in Durations : BriefElapse(d)
    \/ \E l \in HudLines : Send(l)
    \/ Arrive(Len(wire))
    \/ Setup
    \/ SerialIdle
    \/ SerialLine
    \/ Sample
    \/ \E r \in SensorDown : Anim(r)
    \/ TickOne
    \/ TickDone
    \/ Repaint
    \/ Delay

SpecHud == Init /\ [][NextHud]_vars

\* the program compiled with HARD_REFRESH_MINUTES 0 and HARD_REFRESH_SECONDS
\* 0: the minute and second cells take the else branch of drawTimeDigits
BuildDelta == hardRefresh = [minutes |-> 0, seconds |-> 0]

DeltaInit ==
    /\ LoopInit /\ ParseIdle /\ TickIdle /\ DrawIdle /\ WeekdayIdle
    /\ FitIdle /\ BuildDelta

SpecDelta == DeltaInit /\ [][NextHud]_vars

\* values of millis() shortly before it wraps from 2^32 - 1 to 0
WrapStarts == { U32(Half - 1, Half - 1500), U32(Half - 1, Half - 700) }

\* the program at the top of loop() some 49.7 days after setup(), the clock
\* never set and the sensor unplugged: lastTickMs is still what setup()
\* stored, the animation step ran in the iteration before, the sensor was
\* last read half a second ago and the panel is as setup() and the first
\* failed read left it.  uptime counts from here.
WrapInit ==
    /\ ParseIdle /\ TickIdle /\ DrawIdle /\ WeekdayIdle
    /\ FitIdle /\ BuildAsShipped
    /\ pc = "serial"
    /\ now \in WrapStarts
    /\ uptime = 0
    /\ ms = now
    /\ lastTickMs = U32(0, 0)
    /\ subAnimMs = now
    /\ repaintAll = FALSE
    /\ ct = ZeroClock
    /\ wire = <<>>
    /\ rx = <<>>
    /\ str_in = <<>>
    /\ in_i = 0
    /\ tx = <<>>
    /\ lastStatus = "Waiting for time"
    /\ LET f == forceRedrawAll(ZeroClock)
           g == forceRedrawPanel([d \in Cells |-> {}],
                                 [top |-> {}, body |-> {}], ZeroClock)
       IN  /\ prevTimeStr = f.timeStr
           /\ prevDateStr = f.dateStr
           /\ prevFillW = f.fillW
           /\ prevDigitMask = g.masks
           /\ segLit = g.lit
           /\ barLit = g.bar
           /\ dateShown = g.date
           /\ frameLit = g.frame
    /\ nDateTick = 0
    /\ lastEnvRead = Sub32(now, U32(0, 500))
    /\ lastEnvStr = Truncate(EnvPlaceholder, ENV_LINE_LEN + 1)
    /\ lastT = NAN
    /\ lastH = NAN
    /\ envShown = drawEnvLine(EnvPlaceholder)
    /\ envDrawn = 0
    /\ envRead = NoSample
    /\ envUp = -500
    /\ nSent = 0
    /\ syncP = ZeroClock
    /\ syncT = U32(0, 0)
    /\ syncUp = 0
    /\ nSync = 0
    /\ nForce = 1
    /\ ticksIter = 0

\* loop() alone: setup() ran long before
NextWrap ==
    \/ \E d \in Durations : BriefElapse(d)
    \/ \E l \in HudLines : Send(l)
    \/ Arrive(Len(wire))
    \/ SerialIdle
    \/ SerialLine
    \/ Sample
    \/ \E r \in SensorDown : Anim(r)
    \/ TickOne
    \/ TickDone
    \/ Repaint
    \/ Delay

\* the same program run across the wrap of millis()
SpecWrap == WrapInit /\ [][NextWrap]_vars

\* time passing between two iterations of loop(), up to MaxEnvUptime
EnvElapse(d) ==
    /\ UNCHANGED <<parseVars, tickVars, drawVars, weekVars, fitVars,
                   buildVars>>
    /\ UNCHANGED <<screenVars, envVars>>
    /\ pc = "serial"
    /\ uptime + d <= MaxEnvUptime
    /\ uptime' = uptime + d
    /\ now' = Add32(now, d)
    /\ UNCHANGED <<pc, ms, lastTickMs, subAnimMs, repaintAll, ct, wire, rx,
                   str_in, in_i, tx, lastStatus, prevTimeStr, prevDateStr,
                   prevFillW, nSent, syncP, syncT, syncUp,
                   nSync, nForce, ticksIter>>

\* the same program with a sensor that answers
NextEnv ==
    \/ \E d \in EnvDurations : EnvElapse(d)
    \/ \E l \in EnvLines : Send(l)
    \/ Arrive(Len(wire))
    \/ Setup
    \/ SerialIdle
    \/ SerialLine
    \/ Sample
    \/ \E r \in Readings : Anim(r)
    \/ TickOne
    \/ TickDone
    \/ Repaint
    \/ Delay

SpecEnv == Init /\ [][NextEnv]_vars

\* a long line arrives whole or in two pieces
Pieces(w) == IF w \in LongLines THEN {SplitAt, Len(w)} ELSE {Len(w)}

\* the same program, the sender writing over-long lines
NextLong ==
    \/ Elapse(1000)
    \/ \E l \in LongLines : Send(l)
    \/ \E k \in Pieces(wire) : Arrive(k)
    \/ Setup
    \/ SerialIdle
    \/ SerialLine
    \/ Sample
    \/ \E r \in SensorDown : Anim(r)
    \/ TickOne
    \/ TickDone
    \/ Repaint
    \/ Delay

SpecLong == Init /\ [][NextLong]_vars

----------------------------------------------------------------------------
(* parseTime called on its own, once, on a line of ParseCases *)

ParseInit ==
    /\ FitIdle /\ BuildAsShipped
    /\ DrawIdle
    /\ WeekdayIdle
    /\ p_case \in ParseCases
    /\ p_line = p_case.pre \o p_case.text \o p_case.suf
    /\ p_out \in OutBefore
    /\ p_res = ParseFail(p_out)
    /\ p_done = FALSE
    /\ LoopInit
    /\ TickIdle

ParseCall ==
    /\ ~p_done
    /\ p_res' = parseTime(p_line, p_out)
    /\ p_done' = TRUE
    /\ UNCHANGED <<p_case, p_line, p_out, loopVars, screenVars, envVars,
                   tickVars, drawVars, weekVars, fitVars, buildVars>>

SpecParse == ParseInit /\ [][ParseCall]_vars

----------------------------------------------------------------------------
(* tickOneSecond called again and again on a clock of TickStarts *)

TickSpecInit ==
    /\ FitIdle /\ BuildAsShipped
    /\ DrawIdle
    /\ WeekdayIdle
    /\ t_start \in TickStarts
    /\ t_cur = t_start
    /\ t_n = 0
    /\ LoopInit
    /\ ParseIdle

TickSecond ==
    /\ t_n + 1 <= MaxTicks
    /\ (t_n % 60) < MaxRun
    /\ t_cur' = tickOneSecond(t_cur)
    /\ t_n' = t_n + 1
    /\ UNCHANGED <<t_start, loopVars, screenVars, envVars, parseVars,
                   drawVars, weekVars, fitVars, buildVars>>

TickMinute ==
    /\ t_n + 60 <= MaxTicks
    /\ t_n % 60 = 0
    /\ t_cur' = TickMinuteOf(t_cur)
    /\ t_n' = t_n + 60
    /\ UNCHANGED <<t_start, loopVars, screenVars, envVars, parseVars,
                   drawVars, weekVars, fitVars, buildVars>>

TickHour ==
    /\ t_n + 3600 <= MaxTicks
    /\ t_n % 3600 = 0
    /\ t_cur' = TickHourOf(t_cur)
    /\ t_n' = t_n + 3600
    /\ UNCHANGED <<t_start, loopVars, screenVars, envVars, parseVars,
                   drawVars, weekVars, fitVars, buildVars>>

TickNext == TickSecond \/ TickMinute \/ TickHour

SpecTick == TickSpecInit /\ [][TickNext]_vars

----------------------------------------------------------------------------
(* drawTimeDigits, drawSecondsBarFill and drawDateLine called on their own, *)
(* one after the other, with a clock of DrawClocks                          *)

DrawClocks ==
    { ZeroClock,
      Undated(0, 0, 0), Undated(9, 59, 59), Undated(10, 0, 0),
      Undated(23, 59, 58), Undated(23, 59, 59),
      Dated(1969, 12, 31, 23, 59, 59), Dated(1970, 1, 1, 0, 0, 0),
      Dated(2024, 2, 29, 12, 34, 56), Dated(2024, 12, 31, 23, 59, 58),
      Dated(2025, 1, 1, 0, 0, 0), Dated(9999, 12, 31, 10, 0, 30) }

\* the caches cleared as by forceRedrawAll()
ShadowCleared ==
    [ShadowAsBuilt EXCEPT !.timeStr = ClearedTimeStr]

\* drawTimeDigits(c); drawSecondsBarFill(c.second); drawDateLine(c);
DrawThree(sh, c) ==
    LET digits == drawDigitCells(sh.timeStr, sh.masks, sh.lit, c)
        bar == drawSecondsBarLit(sh.bar, sh.fillW, c.second)
    IN  [shadow |->
            [timeStr |-> drawTimeDigits(sh.timeStr, c),
             masks |-> digits.masks,
             fillW |-> drawSecondsBarFill(sh.fillW, c.second),
             dateStr |-> drawDateLine(sh.dateStr, c),
             lit |-> digits.lit,
             bar |-> IF DateDue(sh.dateStr, c) THEN BarUnderDate(bar) ELSE bar,
             date |-> drawDateShown(sh.date, sh.dateStr, c)],
         ops |->
            [digits |-> digits.ops,
             bar |-> drawSecondsBarOps(sh.fillW, c.second),
             date |-> drawDateOps(sh.dateStr, c)]]

DrawInit ==
    /\ FitIdle /\ BuildAsShipped
    /\ d_clock \in DrawClocks
    /\ d_shadow \in {ShadowAsBuilt, ShadowCleared}
    /\ d_ops = NoOps
    /\ d_again = 0
    /\ LoopInit
    /\ ParseIdle
    /\ TickIdle
    /\ WeekdayIdle

\* the three routines are called with another clock
DrawNew(c) ==
    /\ c # d_clock \/ d_again = 0
    /\ d_clock' = c
    /\ d_shadow' = DrawThree(d_shadow, c).shadow
    /\ d_ops' = DrawThree(d_shadow, c).ops
    /\ d_again' = 1
    /\ UNCHANGED <<loopVars, screenVars, envVars, parseVars, tickVars,
                   weekVars, fitVars, buildVars>>

\* the three routines are called once more with the same clock
DrawAgain ==
    /\ d_again >= 1
    /\ d_shadow' = DrawThree(d_shadow, d_clock).shadow
    /\ d_ops' = DrawThree(d_shadow, d_clock).ops
    /\ d_again' = 2
    /\ UNCHANGED <<d_clock, loopVars, screenVars, envVars, parseVars,
                   tickVars, weekVars, fitVars, buildVars>>

DrawNext == (\E c \in DrawClocks : DrawNew(c)) \/ DrawAgain

SpecDraw == DrawInit /\ [][DrawNext]_vars

----------------------------------------------------------------------------
(* Properties of parseTime (under SpecParse) *)

InRangeTime(c) == c.h \in 0..23 /\ c.mi \in 0..59 /\ c.s \in 0..59

InRangeDate(c) == c.y >= 1970 /\ c.mo \in 1..12 /\ c.d \in 1..31

\* C4: every well-formed line of either grammar with in-range fields,
\* optionally behind spaces or tabs, is accepted, and the ClockTime returned
\* carries exactly the decimal fields of the text, with isSet true, and
\* hasDate false and a zero date for the short form, hasDate true for the
\* long form.
C4_ValidLinesParse ==
    p_done /\ p_case.suf = <<>> =>
        /\ p_case.kind = "short" /\ InRangeTime(p_case) =>
             p_res = [ok |-> TRUE,
                      out |-> ClockTime(0, 0, 0, p_case.h, p_case.mi, p_case.s,
                                        FALSE, TRUE)]
        /\ p_case.kind = "long" /\ InRangeTime(p_case) /\ InRangeDate(p_case) =>
             p_res = [ok |-> TRUE,
                      out |-> ClockTime(p_case.y, p_case.mo, p_case.d, p_case.h,
                                        p_case.mi, p_case.s, TRUE, TRUE)]

\* a long-form line behind blanks, with a caller's clock that held another
\* value, has been parsed
C4_Witness ==
    /\ p_done /\ p_case.kind = "long" /\ p_case.suf = <<>>
    /\ p_case.pre = <<"\t", " ">>
    /\ InRangeTime(p_case) /\ InRangeDate(p_case)
    /\ p_case.y = 9999 /\ p_case.h = 23
    /\ p_out # ZeroClock /\ p_res.ok

AllDigits(s, positions) == \A i \in positions : isDigitN(s[i])

\* s is exactly HH:MM:SS with in-range fields
IsShortGrammar(s) ==
    /\ Len(s) = 8
    /\ AllDigits(s, {1, 2, 4, 5, 7, 8}) /\ s[3] = ":" /\ s[6] = ":"
    /\ ~TimeOutOfRange(ShortTemp(s))

\* s begins with YYYY-MM-DD HH:MM:SS with in-range fields
IsLongGrammar(s) ==
    /\ Len(s) >= 19
    /\ AllDigits(s, {1, 2, 3, 4, 6, 7, 9, 10, 12, 13, 15, 16, 18, 19})
    /\ s[5] = "-" /\ s[8] = "-" /\ s[11] = " " /\ s[14] = ":" /\ s[17] = ":"
    /\ ~DateOutOfRange(LongTemp(s)) /\ ~TimeOutOfRange(LongTemp(s))

\* C5: parseTime accepts a line only if, after its leading blanks, it is the
\* 8-character HH:MM:SS or the long form with every separator at its fixed
\* offset, with digits in every digit position and every field in range; in
\* particular a short-form time followed by extra characters is rejected.
C5_OnlyTheTwoGrammars ==
    p_done /\ p_res.ok =>
        IsShortGrammar(SkipBlanks(p_line)) \/ IsLongGrammar(SkipBlanks(p_line))

----------------------------------------------------------------------------
(* Properties of tickOneSecond (under SpecTick) *)

\* days from 1970-01-01 to the civil date y-m-d (proleptic Gregorian)
DaysFromCivil(y, m, d) ==
    LET yy == IF m <= 2 THEN y - 1 ELSE y
        era == yy \div 400
        yoe == yy - era * 400
        mp == IF m > 2 THEN m - 3 ELSE m + 9
        doy == (153 * mp + 2) \div 5 + d - 1
        doe == yoe * 365 + yoe \div 4 - yoe \div 100 + doy
    IN  era * 146097 + doe - 719468

\* the civil date <<y, m, d>> that lies z days after 1970-01-01
CivilFromDays(z) ==
    LET zz == z + 719468
        era == zz \div 146097
        doe == zz - era * 146097
        yoe == (doe - doe \div 1460 + doe \div 36524 - doe \div 146096) \div 365
        doy == doe - (365 * yoe + yoe \div 4 - yoe \div 100)
        mp == (5 * doy + 2) \div 153
        d == doy - (153 * mp + 2) \div 5 + 1
        m == IF mp < 10 THEN mp + 3 ELSE mp - 9
    IN  <<IF m <= 2 THEN yoe + era * 400 + 1 ELSE yoe + era * 400, m, d>>

\* the clock n seconds after t by the reference calendar
RefAdvance(t, n) ==
    LET total == t.hour * 3600 + t.minute * 60 + t.second + n
        sod == total % 86400
        date == IF t.hasDate /\ t.year >= 1970
                THEN CivilFromDays(DaysFromCivil(t.year, t.month, t.day)
                                   + total \div 86400)
                ELSE <<t.year, t.month, t.day>>
    IN  ClockTime(date[1], date[2], date[3], sod \div 3600, (sod % 3600) \div 60,
                  sod % 60, t.hasDate, t.isSet)

\* C8: tickOneSecond applied n times to a valid clock gives the clock n
\* seconds later by the reference Gregorian calendar; without a date the
\* time of day wraps at 24 h and year, month, day, hasDate and isSet stay.
C8_TicksFollowCalendar == t_cur = RefAdvance(t_start, t_n)

\* more than a day of ticks has carried a dated clock into the next year
C8_Witness ==
    t_start.hasDate /\ t_n > 86400 /\ t_cur.year = t_start.year + 1
    /\ t_cur.month = 1 /\ t_cur.day = 1

LeapEve == Dated(2024, 2, 28, 23, 59, 59)
PlainEve == Dated(2023, 2, 28, 23, 59, 59)

\* C9 as stated: 86400 applications to 2024-02-28 23:59:59 give
\* 2024-02-29 00:00:00, and to 2023-02-28 23:59:59 give 2023-03-01 00:00:00.
C9_AsStated ==
    t_n = 86400 =>
        /\ t_start = LeapEve => t_cur = Dated(2024, 2, 29, 0, 0, 0)
        /\ t_start = PlainEve => t_cur = Dated(2023, 3, 1, 0, 0, 0)

\* C9 amended: one application to 2024-02-28 23:59:59 gives 2024-02-29
\* 00:00:00 and 86400 applications give 2024-02-29 23:59:59; one application
\* to 2023-02-28 23:59:59 gives 2023-03-01 00:00:00 and 86400 give
\* 2023-03-01 23:59:59.
C9_LeapDayRollover ==
    /\ t_n = 1 =>
        /\ t_start = LeapEve => t_cur = Dated(2024, 2, 29, 0, 0, 0)
        /\ t_start = PlainEve => t_cur = Dated(2023, 3, 1, 0, 0, 0)
    /\ t_n = 86400 =>
        /\ t_start = LeapEve => t_cur = Dated(2024, 2, 29, 23, 59, 59)
        /\ t_start = PlainEve => t_cur = Dated(2023, 3, 1, 23, 59, 59)

\* 86400 ticks have been applied to 2024-02-28 23:59:59
C9_Witness == t_start = LeapEve /\ t_n = 86400

----------------------------------------------------------------------------
(* Properties of loop() (under Spec) *)

\* an unsigned long below 2^31 as a number
AsNumber(x) == x.hi * Half + x.lo

\* the iteration's work is done: only delay(6) is left
EndOfIteration == pc = "delay"

\* this step is the serial step reading from a non-empty receive queue
ReadsLine == pc = "serial" /\ pc' = "sample" /\ rx # <<>>

\* the line just buffered is not empty and parseTime accepts (rejects) it
LineAccepted == in_i' > 0 /\ parseTime(str_in', ZeroClock).ok
LineRejected == in_i' > 0 /\ ~parseTime(str_in', ZeroClock).ok

\* C1, state part: at the end of every loop iteration after a sync, ct is
\* the parsed clock advanced by exactly floor((ms - T) / 1000) seconds, T
\* being the millis() value the sync stored, and ms - lastTickMs < 1000.
C1_CaughtUp ==
    EndOfIteration /\ nSync > 0 =>
        /\ ct = TickTimes(syncP, AsNumber(Sub32(ms, syncT)) \div 1000)
        /\ ~Ge32(Sub32(ms, lastTickMs), 1000)

\* C1, step part: ct changes only by a sync or by one second at a time in
\* the 1 Hz step, and each such second is followed at once by its own digit
\* and seconds-bar redraw and moves lastTickMs by 1000.
C1_OneSecondSteps ==
    ct' # ct =>
        \/ ReadsLine /\ LineAccepted
        \/ /\ pc = "tick"
           /\ ct' = tickOneSecond(ct)
           /\ lastTickMs' = Add32(lastTickMs, 1000)
           /\ prevTimeStr' = FormatTime(ct')
           /\ prevFillW' = map(ct'.second, 0, 59, 0, barW)
           /\ ticksIter' = ticksIter + 1

\* C1: catch-up timekeeping (both parts)
C1_CatchUp == [](C1_CaughtUp) /\ [][C1_OneSecondSteps]_vars

\* an iteration after a sync has ended in which two seconds were caught up
C1_Witness == EndOfIteration /\ nSync > 0 /\ ticksIter >= 2

\* C2, step part: a line that parses replaces ct by the parsed value, sets
\* lastTickMs to the current time and requests the repaint in the same step;
\* forceRedrawAll runs only in setup() and in the repaint step of loop(),
\* which comes after the 1 Hz step.
C2_SyncStep ==
    /\ ReadsLine /\ LineAccepted =>
         /\ ct' = parseTime(str_in', ZeroClock).out
         /\ lastTickMs' = now
         /\ repaintAll'
    /\ nForce' # nForce =>
         /\ nForce' = nForce + 1
         /\ pc = "setup" \/ (pc = "repaint" /\ repaintAll /\ ~repaintAll')

\* C2, state part: repaintAll is false at the end of every iteration, it is
\* pending only between the serial step and the repaint step, and
\* forceRedrawAll has run once in setup() and once per successful sync.
C2_RepaintCount ==
    /\ EndOfIteration => ~repaintAll
    /\ repaintAll => pc \in {"sample", "anim", "tick", "repaint"}
    /\ pc # "setup" => nForce + (IF repaintAll THEN 1 ELSE 0) = 1 + nSync
    /\ pc = "setup" => nForce = 0

\* C2: a successful sync is applied and repainted within its iteration
C2_SyncAndRepaint == [](C2_RepaintCount) /\ [][C2_SyncStep]_vars

\* a second sync's iteration has ended: the 1 Hz step ran before its repaint
C2_Witness ==
    /\ EndOfIteration /\ tx # <<>> /\ tx[1].tag = "SYNCED: "
    /\ nSync = 2 /\ nForce = 3 /\ ticksIter >= 1

\* C3, step part: a rejected line leaves ct, lastTickMs and repaintAll as
\* they were, and the loop repaints only in an iteration whose line was
\* accepted.
C3_RejectStep ==
    /\ ReadsLine /\ LineRejected =>
         UNCHANGED <<ct, lastTickMs, repaintAll, nForce, nSync>>
    /\ pc = "repaint" /\ nForce' # nForce =>
         tx # <<>> /\ tx[1].tag = "SYNCED: "

\* C3, state part: parseTime leaves its out parameter alone when it rejects
C3_OutKept ==
    \A o \in OutBefore : ~parseTime(str_in, o).ok => parseTime(str_in, o).out = o

\* C3: rejected lines change nothing of the clock state
C3_RejectedLineKeepsState == [](C3_OutKept) /\ [][C3_RejectStep]_vars

\* a line has just been rejected while a synced clock was running
C3_Witness ==
    /\ pc = "sample" /\ tx # <<>> /\ tx[1].tag = "INVALID: "
    /\ ct.isSet /\ ct # syncP

\* C6: whenever hasDate is true, year >= 1970, month is in 1..12 and day is
\* in 1..daysInMonth(year, month).
C6_CalendarInvariant ==
    ct.hasDate =>
        /\ ct.year >= 1970
        /\ ct.month \in 1..12
        /\ ct.day \in 1..daysInMonth(ct.year, ct.month)

\* C7: isSet is false exactly until the first successful sync and never
\* reverts; while it is false ct is the zero value, whatever time elapsed.
C7_IsSetState == (ct.isSet <=> nSync > 0) /\ (~ct.isSet => ct = ZeroClock)

C7_IsSetStep == ct.isSet => ct'.isSet

C7_IsSetLatch == [](C7_IsSetState) /\ [][C7_IsSetStep]_vars

\* an iteration has ended with the clock never set, a line rejected and more
\* than a second gone since setup()
C7_Witness ==
    /\ EndOfIteration /\ ~ct.isSet
    /\ Ge32(Sub32(ms, lastTickMs), 1000)
    /\ lastStatus = "Invalid time format!"

\* the bytes of the queue q in front of its first '\n' or '\r', at most
\* sizeof(str_in) - 1 of them
LineAsReceived(q) ==
    LET ends == {i \in 1..Len(q) : q[i] \in {"\n", "\r"}}
        stop == IF ends = {} THEN Len(q) + 1
                ELSE CHOOSE i \in ends : \A j \in ends : i <= j
    IN  SubSeq(q, 1, IF stop > StrInSize THEN StrInSize - 1 ELSE stop - 1)

\* C10: every non-empty line handed to the parser gets exactly one reply,
\* "SYNCED: <line>" exactly when parseTime accepted it and the sync took
\* effect, "INVALID: <line>" otherwise, <line> being the line as received;
\* an empty line gets no reply and changes neither clock, tick reference,
\* repaint request nor status; nothing else prints a reply.
C10_ReplyStep ==
    /\ ReadsLine /\ in_i' > 0 =>
         /\ str_in' = LineAsReceived(rx)
         /\ tx' = <<[tag |-> IF parseTime(str_in', ZeroClock).ok
                             THEN "SYNCED: " ELSE "INVALID: ",
                     line |-> str_in']>>
         /\ parseTime(str_in', ZeroClock).ok <=> nSync' = nSync + 1
    /\ ReadsLine /\ in_i' = 0 =>
         /\ tx' = <<>>
         /\ UNCHANGED <<ct, lastTickMs, repaintAll, lastStatus, nSync>>
    /\ ~ReadsLine => tx' = <<>> \/ tx' = tx

C10_ReplyProtocol == [][C10_ReplyStep]_vars

\* the '\n' that follows the '\r' of an accepted line has been read as an
\* empty line
C10_Witness == pc = "sample" /\ nSync > 0 /\ str_in = <<>> /\ tx = <<>>

----------------------------------------------------------------------------
(* Properties of the line reader (under Spec and SpecLong) *)

\* the serial step read a '\n' or '\r' as the last byte it took
TerminatorRead ==
    LET taken == Len(rx) - Len(rx')
    IN  taken > 0 /\ rx[taken] \in {"\n", "\r"}

\* C11: a line ends only when '\n' or '\r' is read or the buffer is full;
\* the bytes of one line of the sender are handed to the parser as one line
\* (the bytes in front of its terminator, whether they are in the receive
\* queue already or still on their way), never as partial lines.
C11_WholeLineStep ==
    ReadsLine /\ in_i' > 0 =>
        /\ TerminatorRead \/ in_i' = StrInSize - 1
        /\ str_in' = LineAsReceived(rx \o wire)

C11_LineFraming == [][C11_WholeLineStep]_vars

\* the bytes of the queue q in front of its first '\n' or '\r', all of them
LogicalLine(q) ==
    LET ends == {i \in 1..Len(q) : q[i] \in {"\n", "\r"}}
        stop == IF ends = {} THEN Len(q) + 1
                ELSE CHOOSE i \in ends : \A j \in ends : i <= j
    IN  SubSeq(q, 1, stop - 1)

C12_IndexInBuffer == in_i \in 0..(StrInSize - 1) /\ Len(str_in) = in_i

\* the line being read is longer than the buffer: the parser gets its first
\* 127 bytes, the reader takes every byte of it off the queue, terminator
\* included, and the bytes behind the terminator stay queued for later
C12_LongLineStep ==
    LET whole == LogicalLine(rx \o wire)
    IN  ReadsLine /\ Len(whole) > StrInSize - 1 =>
            /\ str_in' = SubSeq(whole, 1, StrInSize - 1)
            /\ rx' = SubSeq(rx, Len(whole) + 2, Len(rx))

\* C12: in_i never exceeds sizeof(str_in) - 1 and the NUL is written inside
\* str_in; of a line longer than 127 bytes the parser receives the first 127
\* bytes, the excess is discarded without error and later input is
\* processed.
C12_BoundedIngest == [](C12_IndexInBuffer) /\ [][C12_LongLineStep]_vars

----------------------------------------------------------------------------
(* Properties of the panel (under SpecHud) *)

\* C13: at the end of each loop iteration the part of the seconds bar that
\* is painted in the fill colour is exactly the first prevFillW columns, and
\* prevFillW is map(ct.second, 0, 59, 0, barW); after a sync to a smaller
\* second no fill remains to the right of the new width.
C13_BarShadow ==
    EndOfIteration =>
        /\ prevFillW = map(ct.second, 0, 59, 0, barW)
        /\ barLit.body = Columns(0, prevFillW)
        /\ barLit.top = Columns(0, prevFillW)

----------------------------------------------------------------------------
(* Properties of the environment line (under SpecEnv) *)

\* the Anim step called updateEnv and updateEnv took a sample
TakesSample == pc = "anim" /\ pc' = "tick" /\ envRead'.sampled

ValidReading(r) == ~isnan(r.h) /\ ~isnan(r.t)

\* C14: once setup() has run, lastEnvStr is the text drawn in the
\* environment line, also right after a forced repaint; so after an
\* updateEnv sample of a valid reading the line shows that reading's text.
C14_EnvShadow ==
    /\ pc # "setup" => envShown = drawEnvLine(lastEnvStr)
    /\ pc = "tick" /\ envRead.sampled /\ ValidReading(envRead.r) =>
           envShown = drawEnvLine(EnvText(envRead.r))

\* C17: while the last valid reading drawn is on the panel, a valid reading
\* that differs from it by less than 0.2 degrees and less than 1.0 in
\* humidity is not drawn, and one that differs by at least that much in
\* either value is drawn once.
C17_HysteresisStep ==
    LET r == envRead'.r
    IN  /\ TakesSample /\ ValidReading(r)
        /\ ~isnan(lastT) /\ ~isnan(lastH)
        /\ envShown = drawEnvLine(EnvText(Reading(lastH, lastT)))
        => envDrawn' = IF Abs(r.t.x - lastT.x) >= 2 \/ Abs(r.h.x - lastH.x) >= 10
                       THEN 1 ELSE 0

C17_Hysteresis == [][C17_HysteresisStep]_vars

\* C18: a sample with NaN humidity or temperature leaves the placeholder in
\* the environment line, never the numbers of an earlier reading or zeros;
\* the clock and its tick reference are not touched; lastEnvRead is the
\* time of the sample, so that the next sample is taken an interval later,
\* and a sample is taken whenever updateEnv is called that long after it.
C18_FailStep ==
    /\ TakesSample /\ ~ValidReading(envRead'.r) =>
           /\ envShown' = drawEnvLine(EnvPlaceholder)
           /\ lastEnvStr' = EnvPlaceholder
           /\ UNCHANGED <<ct, lastTickMs, repaintAll>>
           /\ lastEnvRead' = now
    /\ pc = "anim" /\ pc' = "tick" /\ AnimDue(ms, subAnimMs)
       /\ Ge32(Sub32(now, lastEnvRead), ENV_INTERVAL) => envRead'.sampled

C18_FailedReading == [][C18_FailStep]_vars

\* a failed sample taken while a valid reading was on the panel
C18_Witness ==
    /\ pc = "tick" /\ envRead.sampled /\ ~ValidReading(envRead.r)
    /\ ~isnan(lastT) /\ ct.isSet
    /\ envShown = drawEnvLine(EnvPlaceholder)

----------------------------------------------------------------------------
(* Properties of the diffing draw routines (under SpecDraw) *)

\* C15: drawTimeDigits, drawSecondsBarFill and drawDateLine called a second
\* time with the same ClockTime, nothing in between, issue no draw or erase
\* operation and leave prevTimeStr, prevDigitMask, prevFillW and prevDateStr
\* (and the panel) as they were.
C15_SecondCallStep ==
    d_again >= 1 /\ d_again' = 2 /\ d_clock' = d_clock =>
        /\ d_ops' = NoOps
        /\ d_shadow' = d_shadow

C15_Idempotent == [][C15_SecondCallStep]_vars

\* the second call for a clock whose first call repainted digits, bar and date
C15_Witness ==
    /\ d_again = 2 /\ d_ops = NoOps
    /\ d_clock = Dated(2025, 1, 1, 0, 0, 0)
    /\ d_shadow.timeStr = FormatTime(d_clock)
    /\ d_shadow.dateStr = DateLine1(d_clock)
    /\ d_shadow.fillW = 0
    /\ d_shadow.lit[0] = SegsOf(DIGIT_MASK[1])

----------------------------------------------------------------------------
(* The date area at a year's end (under SpecHud) *)

NewYearsEve == Dated(2024, 12, 31, 23, 59, 58)
NewYear == Dated(2025, 1, 1, 0, 0, 0)

\* the latest sync was the line "2024-12-31 23:59:58"
SyncedOnNewYearsEve ==
    nSync > 0 /\ [syncP EXCEPT !.isSet = TRUE] = NewYearsEve

\* since that sync the 1 Hz step has repainted the date area once if the
\* clock has reached 2025, and not at all before; from the rollover on the
\* date area shows 01-01-2025 and the weekday of that day
C16_RolloverState ==
    SyncedOnNewYearsEve =>
        /\ nDateTick = IF ct.year = 2025 THEN 1 ELSE 0
        /\ ct.year = 2025 =>
               /\ dateShown.line1 = DateLine1(NewYear)
               /\ dateShown.line2 =
                      <<"Wednesday", " ", ",", " ", "January", " ", "1">>
               /\ dateShown.line2[1] =
                      WEEKDAY_NAME[weekdayIndex(2025, 1, 1) + 1]

\* the 1 Hz step repaints the date area only at midnight and only when the
\* composed text differs from prevDateStr, which then takes that text
C16_RepaintStep ==
    nDateTick' = nDateTick + 1 =>
        /\ IsMidnight(ct')
        /\ DateLine1(ct') # prevDateStr
        /\ prevDateStr' = DateLine1(ct')
        /\ dateShown'.line1 = DateLine1(ct')

----------------------------------------------------------------------------
(* weekdayIndex called on its own, once, on each date from 1970-01-01 on *)

\* the last day looked at, counted from 1970-01-01: 2100-12-31
WeekdayDays == 47846

WeekdayInit ==
    /\ FitIdle /\ BuildAsShipped
    /\ w_date \in { CivilFromDays(z) : z \in 0..WeekdayDays }
    /\ w_res = 0
    /\ w_done = FALSE
    /\ LoopInit
    /\ ParseIdle
    /\ TickIdle
    /\ DrawIdle

WeekdayCall ==
    /\ ~w_done
    /\ w_res' = weekdayIndex(w_date[1], w_date[2], w_date[3])
    /\ w_done' = TRUE
    /\ UNCHANGED <<w_date, loopVars, screenVars, envVars, parseVars, tickVars,
                   drawVars, fitVars, buildVars>>

SpecWeekday == WeekdayInit /\ [][WeekdayCall]_vars

\* C19: for every date from 1970-01-01 to the end of 2100, weekdayIndex
\* returns the day of the week, 0 = Sunday .. 6 = Saturday, that the day
\* count from 1970-01-01 (a Thursday) gives; 2025-01-01 is a Wednesday.
C19_WeekdayCorrect ==
    w_done =>
        /\ w_res \in 0..6
        /\ w_res = (DaysFromCivil(w_date[1], w_date[2], w_date[3]) + 4) % 7
        /\ w_date = <<1970, 1, 1>> => w_res = 4
        /\ w_date = <<2025, 1, 1>> => w_res = 3

\* the leap day of the century year 2000, a Tuesday
C19_Witness == w_done /\ w_date = <<2000, 2, 29>> /\ w_res = 2

----------------------------------------------------------------------------
(* The digits on the panel (under SpecHud) *)

\* the digit of the clock c that cell di shows
DigitOf(c, di) ==
    CASE di = 0 -> c.hour \div 10
      [] di = 1 -> c.hour % 10
      [] di = 2 -> c.minute \div 10
      [] di = 3 -> c.minute % 10
      [] di = 4 -> c.second \div 10
      [] di = 5 -> c.second % 10

\* the step calls drawTimeDigits: a tick, setup() or a forced repaint
DrawsDigits ==
    \/ pc = "tick" /\ ticksIter' = ticksIter + 1
    \/ pc = "setup" /\ pc' = "serial"
    \/ pc = "repaint" /\ repaintAll

C20_DigitStep ==
    DrawsDigits =>
        \A di \in Cells :
            /\ segLit'[di] = SegsOf(DIGIT_MASK[DigitOf(ct', di) + 1])
            /\ prevDigitMask'[di] = DIGIT_MASK[DigitOf(ct', di) + 1]

C20_DigitsShadow ==
    pc # "setup" => \A di \in Cells : segLit[di] = SegsOf(prevDigitMask[di])

\* C20: after every drawTimeDigits call, by a tick or by a forced repaint,
\* the segments painted in full in each of the six cells are those of
\* DIGIT_MASK of the corresponding digit of ct, and are prevDigitMask of the
\* cell -- although the background fill of a tens cell reaches SEG_THICK -
\* E_SP pixels into the units cell next to it.
C20_HardRefresh == [](C20_DigitsShadow) /\ [][C20_DigitStep]_vars

\* the tick to midnight: the refresh of each tens cell has cut into segments
\* F and E of the units cell beside it, which showed 9 or 3 and shows 0 now
C20_Witness ==
    /\ pc = "tick" /\ ticksIter > 0
    /\ ct = NewYear
    /\ SEG_THICK - E_SP > 0
    /\ \A di \in {0, 2, 4} :
           /\ Overlap(digitBounds(di), SegRect(di + 1, SEG_F))
           /\ Overlap(digitBounds(di), SegRect(di + 1, SEG_E))
           /\ digitBounds(di).x + digitBounds(di).w - DIG_X(di + 1)
                  = SEG_THICK - E_SP
    /\ \A di \in Cells : segLit[di] = SegsOf(DIGIT_MASK[1])

----------------------------------------------------------------------------
(* Digits drawn by segment delta *)

\* the cells that take the else branch of drawTimeDigits
DeltaCells == { di \in Cells : ~HardCell(di) }

\* what is lit in the delta cells is the digit of ct, nothing more
DeltaCellsShow(lit, c) ==
    \A di \in DeltaCells : lit[di] = SegsOf(DIGIT_MASK[DigitOf(c, di) + 1])

C21_DeltaStep == DrawsDigits => DeltaCellsShow(segLit', ct')

\* C21: compiled with HARD_REFRESH_MINUTES and HARD_REFRESH_SECONDS 0, after
\* every drawTimeDigits call -- by a tick, by setup() or by the forced
\* repaint after a sync -- the segments lit in each minute and second cell
\* are exactly those of DIGIT_MASK of the digit shown, none of the digit
\* shown before left lit.
C21_DeltaDigits == [][C21_DeltaStep]_vars

----------------------------------------------------------------------------
(* autoSizeToFit run on its own, for each display width, a pass of its for *)
(* loop at a time                                                          *)

\* const int MARGIN=6, MIN_SP=0, MIN_COLON=4, MIN_THICK=4, MIN_LEN=16,
\* MIN_VLEN=16;
MARGIN == 6
MIN_SP == 0
MIN_COLON == 4
MIN_THICK == 4
MIN_LEN == 16
MIN_VLEN == 16

\* for (int g = 0; g < 200; ++g)
FIT_PASSES == 200

\* the widest display looked at
MaxWidth == 320

\* totalRowWidth() with the sizes z
rowWidth(z) == 6 * (z.SEG_LEN + 2 * SEG_HGAP) + 2 * z.COLON_W + 7 * z.E_SP

\* a value as an unsigned int of the ATmega2560 (16 bits)
U16(x) == x % 65536

\* need <= W - 2*MARGIN as the compiler evaluates it: W is a uint16_t, so
\* the int operands are converted to unsigned int, the difference is taken
\* modulo 2^16 and the comparison is unsigned
FitsUnsigned(need, w) == U16(need) <= U16(w - 2 * MARGIN)

\* one pass of the body of the for loop: the sizes after it and whether the
\* loop goes on (continue) or is left (break)
FitBody(z, w) ==
    IF FitsUnsigned(rowWidth(z), w) THEN [size |-> z, go |-> FALSE]
    ELSE IF z.E_SP > MIN_SP
         THEN [size |-> [z EXCEPT !.E_SP = @ - 1], go |-> TRUE]
    ELSE IF z.COLON_W > MIN_COLON
         THEN [size |-> [z EXCEPT !.COLON_W = @ - 1], go |-> TRUE]
    ELSE IF z.SEG_LEN > MIN_LEN
         THEN [size |-> [z EXCEPT !.SEG_LEN = @ - 1], go |-> TRUE]
    ELSE IF z.SEG_VLEN > MIN_VLEN
         THEN [size |-> [z EXCEPT !.SEG_VLEN = @ - 1], go |-> TRUE]
    ELSE IF z.SEG_THICK > MIN_THICK
         THEN [size |-> [z EXCEPT !.SEG_THICK = @ - 1], go |-> TRUE]
    ELSE [size |-> z, go |-> FALSE]

FitInit ==
    /\ LoopInit /\ ParseIdle /\ TickIdle /\ DrawIdle /\ WeekdayIdle
    /\ BuildAsShipped
    /\ a_W \in 0..MaxWidth
    /\ a_size = SizesAsBuilt
    /\ a_g = 0
    /\ a_pc = "loop"

\* the test g < 200 and, when it holds, the body and ++g
FitPass ==
    /\ a_pc = "loop"
    /\ IF a_g < FIT_PASSES
       THEN LET b == FitBody(a_size, a_W)
            IN  /\ a_size' = b.size
                /\ a_g' = IF b.go THEN a_g + 1 ELSE a_g
                /\ a_pc' = IF b.go THEN "loop" ELSE "done"
       ELSE /\ a_pc' = "done"
            /\ UNCHANGED <<a_size, a_g>>
    /\ UNCHANGED <<a_W, loopVars, screenVars, envVars, parseVars, tickVars,
                   drawVars, weekVars, buildVars>>

SpecFit == FitInit /\ [][FitPass]_vars /\ WF_vars(FitPass)

AtMinimums(z) ==
    /\ z.E_SP = MIN_SP /\ z.COLON_W = MIN_COLON /\ z.SEG_LEN = MIN_LEN
    /\ z.SEG_VLEN = MIN_VLEN /\ z.SEG_THICK = MIN_THICK

AboveMinimums(z) ==
    /\ z.E_SP >= MIN_SP /\ z.COLON_W >= MIN_COLON /\ z.SEG_LEN >= MIN_LEN
    /\ z.SEG_VLEN >= MIN_VLEN /\ z.SEG_THICK >= MIN_THICK

\* on exit the row fits or nothing is left to shrink
C22_Exit ==
    a_pc = "done" =>
        \/ rowWidth(a_size) <= a_W - 2 * MARGIN
        \/ AtMinimums(a_size)

\* the loop is left before g reaches 200, and no size is below its minimum
C22_Bounded == a_g < FIT_PASSES /\ AboveMinimums(a_size)

\* a pass shrinks at most one size, by one, and only when every size before
\* it in the order E_SP, COLON_W, SEG_LEN, SEG_VLEN, SEG_THICK is at its
\* minimum
C22_PriorityStep ==
    /\ a_size'.E_SP \in {a_size.E_SP, a_size.E_SP - 1}
    /\ a_size'.COLON_W # a_size.COLON_W =>
           /\ a_size'.COLON_W = a_size.COLON_W - 1
           /\ a_size.E_SP = MIN_SP
    /\ a_size'.SEG_LEN # a_size.SEG_LEN =>
           /\ a_size'.SEG_LEN = a_size.SEG_LEN - 1
           /\ a_size.E_SP = MIN_SP /\ a_size.COLON_W = MIN_COLON
    /\ a_size'.SEG_VLEN # a_size.SEG_VLEN =>
           /\ a_size'.SEG_VLEN = a_size.SEG_VLEN - 1
           /\ a_size.E_SP = MIN_SP /\ a_size.COLON_W = MIN_COLON
           /\ a_size.SEG_LEN = MIN_LEN
    /\ a_size'.SEG_THICK # a_size.SEG_THICK =>
           /\ a_size'.SEG_THICK = a_size.SEG_THICK - 1
           /\ a_size.E_SP = MIN_SP /\ a_size.COLON_W = MIN_COLON
           /\ a_size.SEG_LEN = MIN_LEN /\ a_size.SEG_VLEN = MIN_VLEN

\* the run ends
C22_Terminates == <>(a_pc = "done")

\* C22: for every display width W, autoSizeToFit ends within its 200 passes
\* and on exit either totalRowWidth() <= W - 2*MARGIN or E_SP, COLON_W,
\* SEG_LEN, SEG_VLEN and SEG_THICK are all at their minimums 0, 4, 16, 16,
\* 4; a size is decremented only when every size of higher priority is at
\* its minimum, and no size goes below its minimum.
C22_AutoFit ==
    /\ [](C22_Exit /\ C22_Bounded)
    /\ [][C22_PriorityStep]_vars
    /\ C22_Terminates

----------------------------------------------------------------------------
(* The date area and the outline of the seconds bar *)

\* C23: the rows drawDateLine fills with background and prints on hold no
\* pixel of the outline of the seconds bar, so once setup() has drawn it
\* the outline is drawn in every one of its rows at all times, also after
\* the date redraw the 1 Hz step makes at midnight, with no forced repaint
\* needed to restore it.
C23_FrameKept == pc # "setup" => frameLit = Rows(FrameRect)

----------------------------------------------------------------------------
(* millis() wrapping from 2^32 - 1 to 0 (under SpecWrap) *)

\* the clock is the synced time plus the whole seconds that have passed
\* since, and the tick reference is behind ms by the rest
C24_KeepsTime ==
    EndOfIteration /\ nSync > 0 =>
        /\ ct = TickTimes(syncP, (uptime - syncUp) \div 1000)
        /\ AsNumber(Sub32(ms, lastTickMs)) = (uptime - syncUp) % 1000

\* the animation step runs whenever time has passed since it last ran (time
\* passes half a second at a time here), and it reads the sensor exactly
\* when 2000 ms have passed since the last read
C24_CadenceStep ==
    pc = "anim" =>
        /\ AnimDue(ms, subAnimMs) = (ms # subAnimMs)
        /\ AnimDue(ms, subAnimMs) =>
               (envRead'.sampled = (uptime - envUp >= ENV_INTERVAL))

\* C24: across the wrap of millis() from 2^32 - 1 to 0 a set clock advances
\* exactly once per 1000 ms that pass, one second at a time, with no burst
\* of extra ticks and no stalled period; the 30 ms and the 2000 ms checks
\* keep their cadence as well.
C24_Wraparound ==
    [](C24_KeepsTime) /\ [][C1_OneSecondSteps /\ C24_CadenceStep]_vars

\* a tick made with ms past the wrap and lastTickMs, already advanced by
\* 1000, still before it; the sync was before the wrap
C24_Witness ==
    /\ EndOfIteration /\ nSync > 0 /\ ticksIter > 0
    /\ syncT.hi = Half - 1 /\ lastTickMs.hi = Half - 1 /\ ms.hi = 0
    /\ ct = TickTimes(syncP, 1)

====
